---------------------------- MODULE Spec2Model ----------------------------
(***************************************************************************)
(* A model of the PDF accessibility linker: the canonical URN authority,   *)
(* the construction-time invariants of the data schemas, the Relational    *)
(* Linker, the Binary Annotator and the topology induction of the Grammar  *)
(* & Topology Inducer.                                                     *)
(*                                                                         *)
(* Text is a sequence of one-character strings, so that the string         *)
(* operations of the source (lower, strip, split, startswith, int, the     *)
(* regular expressions) are computed character by character.  Scores and   *)
(* confidences are hundredths (0.75 is 75).                                *)
(*                                                                         *)
(* Every component has its own specification over its own variables; the   *)
(* variables of the other components stay at their idle values.            *)
(***************************************************************************)
EXTENDS Integers, Sequences, FiniteSets, TLC

VARIABLES
    \* utils/canonical.py, page URNs: one generate/parse round trip
    urnPc, urnVal, urnType, urnStr, urnParsed,
    \* utils/canonical.py, slugify: one call and a second call on its result
    slugPc, slugText, slugFallback, slugOut, slugAgain,
    \* data_models/schemas.py: the last constructor call and its outcome
    ctorPc, ctorArgs,
    \* core/resolver.py, _resolve_printed_to_physical: one lookup in a page map
    lookPc, lookMap, lookVal, lookType, lookResult,
    \* core/resolver.py, resolve(): the AST, the page map, the references (which
    \* resolve mutates in place), the loop position and the returned list (the
    \* positions of the returned references in refs)
    linkPc, linkAst, linkMap, linkRefs, linkI, linkOut,
    \* core/annotator.py, annotate(): the references given, the loop position,
    \* whether the document handle is open, the links inserted in memory, the
    \* number of calls of doc.save and the output file (<<>>: it does not exist)
    annPc, annRefs, annI, annDocOpen, annLinks, annSaveCalls, annOutput,
    \* core/profiler.py, run(): the numeral tokens of the document's lines, the
    \* topology candidates, the stream keys in dictionary order and the loop
    \* position, best_score (thousandths), target_stream_key, winning_chain,
    \* page_map, the content weights of the pages and whether the document
    \* handle is open
    topoPc, topoDoc, topoCands, topoKeys, topoK, topoBestScore, topoWinKey,
    topoWinChain, topoPageMap, topoWeights, topoDocOpen,
    \* the roman-numeral check of the Miner and of the Inducer: the token, and the value returned by the conversion (<<>>: it was not called)
    romPc, romToken, romValue,
    \* core/miner.py, mine_page_references: the sentence, the 0-indexed page, the tokens captured by page_pattern and the references returned
    minePc, mineSentence, minePage, mineTokens, mineRefs,
    \* main.py: the batch, the five phases of one document, the files and the open handles
    pipePc, pipeGlob, pipeReprofile, pipeTuning, pipeQueue, pipeIdx, pipeSuccess, pipeFailure, pipeRulebook, pipeHandles, pipeOutput, pipeLog,
    \* core/vocabulary_registry.py and core/profiler.py: the two stores, the clock, and one lookup
    vocPc, vocManual, vocApi, vocClock, vocOps, vocDoc, vocSamples, vocMode, vocResult,
    \* core/profiler.py: an oracle response and what the validation makes of it
    oraPc, oraResponse, oraResult,
    \* core/profiler.py: the font clusters, the body size, and the hierarchy levels
    hierPc, hierClusters, hierBody, hierLevels,
    \* core/profiler.py: the oracle retry loop of one vocabulary resolution and the calls made
    rtyPc, rtyMode, rtyKey, rtyMaxRetries, rtyHit, rtyAttempt, rtyPrompt, rtyCalls, rtyStore, rtyPacket, rtyResult,
    \* core/indexer.py, build_ast: the rulebook, the lines of the document, the loop position, the locals (nodes, counters, pending heading) and the returned list
    astPc, astRulebook, astDoc, astI, astState, astDocOpen, astReturned

urnVars  == <<urnPc, urnVal, urnType, urnStr, urnParsed>>
slugVars == <<slugPc, slugText, slugFallback, slugOut, slugAgain>>
ctorVars == <<ctorPc, ctorArgs>>
lookVars == <<lookPc, lookMap, lookVal, lookType, lookResult>>
linkVars == <<linkPc, linkAst, linkMap, linkRefs, linkI, linkOut>>
annVars  == <<annPc, annRefs, annI, annDocOpen, annLinks, annSaveCalls, annOutput>>
topoVars == <<topoPc, topoDoc, topoCands, topoKeys, topoK, topoBestScore,
              topoWinKey, topoWinChain, topoPageMap, topoWeights, topoDocOpen>>
romVars == <<romPc, romToken, romValue>>
mineVars == <<minePc, mineSentence, minePage, mineTokens, mineRefs>>
pipeVars == <<pipePc, pipeGlob, pipeReprofile, pipeTuning, pipeQueue, pipeIdx, pipeSuccess, pipeFailure, pipeRulebook, pipeHandles, pipeOutput, pipeLog>>
vocVars == <<vocPc, vocManual, vocApi, vocClock, vocOps, vocDoc, vocSamples, vocMode, vocResult>>
oraVars == <<oraPc, oraResponse, oraResult>>
hierVars == <<hierPc, hierClusters, hierBody, hierLevels>>
rtyVars == <<rtyPc, rtyMode, rtyKey, rtyMaxRetries, rtyHit, rtyAttempt, rtyPrompt, rtyCalls, rtyStore, rtyPacket, rtyResult>>
astVars == <<astPc, astRulebook, astDoc, astI, astState, astDocOpen, astReturned>>
vars     == <<urnVars, slugVars, ctorVars, lookVars, linkVars, annVars, topoVars, romVars, mineVars, pipeVars, vocVars, oraVars, hierVars, rtyVars, astVars>>

\* what the actions of component c leave alone
Frame(c) ==
    /\ IF c = "urn" THEN TRUE ELSE UNCHANGED urnVars
    /\ IF c = "slug" THEN TRUE ELSE UNCHANGED slugVars
    /\ IF c = "ctor" THEN TRUE ELSE UNCHANGED ctorVars
    /\ IF c = "look" THEN TRUE ELSE UNCHANGED lookVars
    /\ IF c = "link" THEN TRUE ELSE UNCHANGED linkVars
    /\ IF c = "ann" THEN TRUE ELSE UNCHANGED annVars
    /\ IF c = "topo" THEN TRUE ELSE UNCHANGED topoVars
    /\ IF c = "rom" THEN TRUE ELSE UNCHANGED romVars
    /\ IF c = "mine" THEN TRUE ELSE UNCHANGED mineVars
    /\ IF c = "pipe" THEN TRUE ELSE UNCHANGED pipeVars
    /\ IF c = "voc" THEN TRUE ELSE UNCHANGED vocVars
    /\ IF c = "ora" THEN TRUE ELSE UNCHANGED oraVars
    /\ IF c = "hier" THEN TRUE ELSE UNCHANGED hierVars
    /\ IF c = "rty" THEN TRUE ELSE UNCHANGED rtyVars
    /\ IF c = "ast" THEN TRUE ELSE UNCHANGED astVars

---------------------------------------------------------------------------
(* Characters and strings                                                  *)

LowerChars == {"a","b","c","d","e","f","g","h","i","j","k","l","m",
               "n","o","p","q","r","s","t","u","v","w","x","y","z"}
UpperChars == {"A","B","C","D","E","F","G","H","I","J","K","L","M",
               "N","O","P","Q","R","S","T","U","V","W","X","Y","Z"}
Digits     == <<"0","1","2","3","4","5","6","7","8","9">>
DigitChars == {Digits[i] : i \in 1..10}
SpaceChars == {" ", "\n", "\t"}

\* str.lower() on one character
LowerPairs == <<"a","b","c","d","e","f","g","h","i","j","k","l","m",
                "n","o","p","q","r","s","t","u","v","w","x","y","z">>
UpperPairs == <<"A","B","C","D","E","F","G","H","I","J","K","L","M",
                "N","O","P","Q","R","S","T","U","V","W","X","Y","Z">>
LowerChar(c) ==
    IF c \in UpperChars
    THEN LowerPairs[CHOOSE i \in 1..26 : UpperPairs[i] = c]
    ELSE c

\* str.lower()
Lower(s) == [i \in 1..Len(s) |-> LowerChar(s[i])]

\* str.lstrip(chars) / str.rstrip(chars) / str.strip(chars)
RECURSIVE LStrip(_, _)
LStrip(s, chars) ==
    IF Len(s) > 0 /\ s[1] \in chars THEN LStrip(Tail(s), chars) ELSE s
RECURSIVE RStrip(_, _)
RStrip(s, chars) ==
    IF Len(s) > 0 /\ s[Len(s)] \in chars
    THEN RStrip(SubSeq(s, 1, Len(s) - 1), chars)
    ELSE s
Strip(s, chars) == RStrip(LStrip(s, chars), chars)

\* str.startswith(prefix)
StartsWith(s, prefix) ==
    Len(s) >= Len(prefix) /\ SubSeq(s, 1, Len(prefix)) = prefix

\* str.split(sep) for a one-character separator: the list of the parts
RECURSIVE SplitFrom(_, _, _)
SplitFrom(s, sep, cur) ==
    IF s = <<>> THEN <<cur>>
    ELSE IF s[1] = sep THEN <<cur>> \o SplitFrom(Tail(s), sep, <<>>)
    ELSE SplitFrom(Tail(s), sep, Append(cur, s[1]))
Split(s, sep) == SplitFrom(s, sep, <<>>)

\* str(n) for n >= 0: the decimal digits, most significant first
RECURSIVE IntToStr(_)
IntToStr(n) ==
    IF n < 10 THEN <<Digits[n + 1]>>
    ELSE Append(IntToStr(n \div 10), Digits[(n % 10) + 1])

DigitValue(c) == (CHOOSE i \in 1..10 : Digits[i] = c) - 1
RECURSIVE DigitsToInt(_, _)
DigitsToInt(s, acc) ==
    IF s = <<>> THEN acc
    ELSE DigitsToInt(Tail(s), 10 * acc + DigitValue(s[1]))

\* int(s): surrounding whitespace is ignored; anything but a non-empty run of
\* decimal digits raises ValueError (signs and underscores are outside the
\* alphabets used here).
IntParses(s) ==
    LET t == Strip(s, SpaceChars)
    IN  Len(t) > 0 /\ \A i \in 1..Len(t) : t[i] \in DigitChars
StrToInt(s) == DigitsToInt(Strip(s, SpaceChars), 0)

\* all sequences over alphabet a of length at most n
RECURSIVE SeqsUpTo(_, _)
SeqsUpTo(a, n) ==
    IF n = 0 THEN {<<>>}
    ELSE LET shorter == SeqsUpTo(a, n - 1)
         IN  shorter \cup {Append(s, c) : s \in shorter, c \in a}

RECURSIVE Flatten(_)
Flatten(ss) == IF ss = <<>> THEN <<>> ELSE Head(ss) \o Flatten(Tail(ss))

Colon      == <<":">>
PageWord   == <<"p","a","g","e">>
PagePrefix == <<"p","a","g","e",":">>
Arabic     == <<"a","r","a","b","i","c">>
Roman      == <<"r","o","m","a","n">>
NumberingTypes == {Arabic, Roman}

---------------------------------------------------------------------------
(* utils/canonical.py                                                      *)

\* Bounds of the canonical specifications
MaxUrnVal  == 120
MaxSlugLen == 4

\* generate_page_urn with the value and the type in the wrong order
GeneratePageUrnSwapped(val, numberingType) ==
    PagePrefix \o IntToStr(val) \o Colon \o Lower(numberingType)

\* CanonicalURN.generate_page_urn(val, numbering_type)
GeneratePageUrn(val, numberingType) ==
    PagePrefix \o Lower(numberingType) \o Colon \o IntToStr(val)

\* CanonicalURN.parse_page_urn(urn).  kind "none" is the (None, None) of a
\* non-page URN, "ValueError" the exception of a malformed one, "ok" the pair
\* (num_type, val).
ParseResult(kind, numType, val) == [kind |-> kind, num_type |-> numType, val |-> val]
ParsePageUrn(urn) ==
    IF ~StartsWith(urn, PagePrefix) THEN ParseResult("none", <<>>, 0)
    ELSE LET parts == Split(urn, ":")
         IN  IF Len(parts) # 3 THEN ParseResult("ValueError", <<>>, 0)
             ELSE IF ~IntParses(parts[3]) THEN ParseResult("ValueError", <<>>, 0)
             ELSE ParseResult("ok", parts[2], StrToInt(parts[3]))

\* re.sub(r'[^a-z0-9]+', '-', text): every maximal run of characters outside
\* [a-z0-9] becomes one hyphen
SlugChars == LowerChars \cup DigitChars
RECURSIVE SubNonSlugRuns(_, _)
SubNonSlugRuns(s, inRun) ==
    IF s = <<>> THEN <<>>
    ELSE IF s[1] \in SlugChars THEN <<s[1]>> \o SubNonSlugRuns(Tail(s), FALSE)
    ELSE IF inRun THEN SubNonSlugRuns(Tail(s), TRUE)
    ELSE <<"-">> \o SubNonSlugRuns(Tail(s), TRUE)

DefaultFallback == <<"t","h","e","m","e">>

\* slugify without the final strip of hyphens
SlugifyUntrimmed(text, fallback) ==
    LET t    == Strip(Lower(text), SpaceChars)
        slug == SubNonSlugRuns(t, FALSE)
    IN  IF slug # <<>> THEN slug ELSE fallback

\* CanonicalURN.slugify(text, fallback)
Slugify(text, fallback) ==
    LET t    == Strip(Lower(text), SpaceChars)
        slug == Strip(SubNonSlugRuns(t, FALSE), {"-"})
    IN  IF slug # <<>> THEN slug ELSE fallback

\* CanonicalURN.generate_structural_urn(namespace, counter): counter:02d
GenerateStructuralUrn(namespace, counter) ==
    Lower(namespace) \o Colon \o
    (IF counter < 10 THEN <<"0">> \o IntToStr(counter) ELSE IntToStr(counter))

UrnIdle ==
    /\ urnPc = "off" /\ urnVal = 0 /\ urnType = <<>>
    /\ urnStr = <<>> /\ urnParsed = ParseResult("none", <<>>, 0)
SlugIdle ==
    /\ slugPc = "off" /\ slugText = <<>> /\ slugFallback = <<>>
    /\ slugOut = <<>> /\ slugAgain = <<>>
CtorIdle ==
    /\ ctorPc = "off" /\ ctorArgs = [cls |-> "none"]
LookIdle ==
    /\ lookPc = "off" /\ lookMap = <<>> /\ lookVal = 0
    /\ lookType = <<>> /\ lookResult = <<>>
LinkIdle ==
    /\ linkPc = "off" /\ linkAst = <<>> /\ linkMap = <<>>
    /\ linkRefs = <<>> /\ linkI = 0 /\ linkOut = <<>>
AnnIdle ==
    /\ annPc = "off" /\ annRefs = <<>> /\ annI = 0 /\ annDocOpen = FALSE
    /\ annLinks = <<>> /\ annSaveCalls = 0 /\ annOutput = <<>>

\* the idle values of every component but c
TopoIdle ==
    /\ topoPc = "off" /\ topoDoc = <<>> /\ topoCands = <<>> /\ topoKeys = <<>>
    /\ topoK = 0 /\ topoBestScore = 0 /\ topoWinKey = <<>>
    /\ topoWinChain = <<>> /\ topoPageMap = <<>> /\ topoWeights = "none"
    /\ topoDocOpen = FALSE
RomIdle ==
    /\ romPc = "off" /\ romToken = <<>> /\ romValue = <<>>
MineIdle ==
    /\ minePc = "off" /\ mineSentence = <<>> /\ minePage = 0 /\ mineTokens = <<>> /\ mineRefs = <<>>
PipeIdle ==
    /\ pipePc = "off" /\ pipeGlob = <<>> /\ pipeReprofile = FALSE /\ pipeTuning = "absent" /\ pipeQueue = <<>> /\ pipeIdx = 0
    /\ pipeSuccess = 0 /\ pipeFailure = 0 /\ pipeRulebook = <<>> /\ pipeHandles = {} /\ pipeOutput = {} /\ pipeLog = <<>>
VocIdle ==
    /\ vocPc = "off" /\ vocManual = <<>> /\ vocApi = <<>> /\ vocClock = 0 /\ vocOps = 0 /\ vocDoc = "" /\ vocSamples = <<>> /\ vocMode = "" /\ vocResult = <<>>
OraIdle ==
    /\ oraPc = "off" /\ oraResponse = <<>> /\ oraResult = <<>>
HierIdle ==
    /\ hierPc = "off" /\ hierClusters = {} /\ hierBody = 0 /\ hierLevels = <<>>
RtyIdle ==
    rtyPc = "off" /\ rtyMode = "" /\ rtyKey = FALSE /\ rtyMaxRetries = 0 /\ rtyHit = <<>> /\ rtyAttempt = 0 /\ rtyPrompt = "" /\ rtyCalls = <<>> /\ rtyStore = <<>> /\ rtyPacket = FALSE /\ rtyResult = <<>>
AstIdle ==
    astPc = "off" /\ astRulebook = <<>> /\ astDoc = <<>> /\ astI = 0 /\ astState = <<>> /\ astDocOpen = FALSE /\ astReturned = <<>>
IdleExcept(c) ==
    /\ IF c = "urn" THEN TRUE ELSE UrnIdle
    /\ IF c = "slug" THEN TRUE ELSE SlugIdle
    /\ IF c = "ctor" THEN TRUE ELSE CtorIdle
    /\ IF c = "look" THEN TRUE ELSE LookIdle
    /\ IF c = "link" THEN TRUE ELSE LinkIdle
    /\ IF c = "ann" THEN TRUE ELSE AnnIdle
    /\ IF c = "topo" THEN TRUE ELSE TopoIdle
    /\ IF c = "rom" THEN TRUE ELSE RomIdle
    /\ IF c = "mine" THEN TRUE ELSE MineIdle
    /\ IF c = "pipe" THEN TRUE ELSE PipeIdle
    /\ IF c = "voc" THEN TRUE ELSE VocIdle
    /\ IF c = "ora" THEN TRUE ELSE OraIdle
    /\ IF c = "hier" THEN TRUE ELSE HierIdle
    /\ IF c = "rty" THEN TRUE ELSE RtyIdle
    /\ IF c = "ast" THEN TRUE ELSE AstIdle

\* --- the page URN round trip ---
UrnInit ==
    /\ urnPc = "start"
    /\ urnVal \in 1..MaxUrnVal
    /\ urnType \in NumberingTypes
    /\ urnStr = <<>>
    /\ urnParsed = ParseResult("none", <<>>, 0)
    /\ IdleExcept("urn")

UrnGenerate ==
    /\ urnPc = "start"
    /\ urnStr' = GeneratePageUrn(urnVal, urnType)
    /\ urnPc' = "generated"
    /\ UNCHANGED <<urnVal, urnType, urnParsed>>
    /\ Frame("urn")

UrnParse ==
    /\ urnPc = "generated"
    /\ urnParsed' = ParsePageUrn(urnStr)
    /\ urnPc' = "parsed"
    /\ UNCHANGED <<urnVal, urnType, urnStr>>
    /\ Frame("urn")

UrnNext == UrnGenerate \/ UrnParse
SpecUrn == UrnInit /\ [][UrnNext]_vars

\* --- slugify ---
\* the input alphabet: a lowercase and an uppercase letter, a digit, white
\* space, a hyphen, punctuation and a non-ASCII letter
SlugAlphabet == {"a", "B", "1", " ", "-", ":", "U+00E9"}
CustomFallback == <<"N", "/", "A">>

SlugInit ==
    /\ slugPc = "start"
    /\ slugText \in SeqsUpTo(SlugAlphabet, MaxSlugLen)
    /\ slugFallback \in {DefaultFallback, CustomFallback}
    /\ slugOut = <<>>
    /\ slugAgain = <<>>
    /\ IdleExcept("slug")

SlugCall ==
    /\ slugPc = "start"
    /\ slugOut' = Slugify(slugText, slugFallback)
    /\ slugPc' = "once"
    /\ UNCHANGED <<slugText, slugFallback, slugAgain>>
    /\ Frame("slug")

SlugCallAgain ==
    /\ slugPc = "once"
    /\ slugAgain' = Slugify(slugOut, slugFallback)
    /\ slugPc' = "twice"
    /\ UNCHANGED <<slugText, slugFallback, slugOut>>
    /\ Frame("slug")

SlugNext == SlugCall \/ SlugCallAgain
SpecSlug == SlugInit /\ [][SlugNext]_vars

---------------------------------------------------------------------------
(* data_models/schemas.py                                                  *)

\* Bound of the schema specification: anchors are built from this many tokens
MaxAnchorTokens == 4

NamespaceChars == LowerChars \cup DigitChars \cup {"_", ".", "-"}
TokenChars     == NamespaceChars \cup UpperChars
AllIn(s, chars) == \A i \in 1..Len(s) : s[i] \in chars

\* first alternative of _ANCHOR_PATTERNS: page:(?:arabic|roman):[1-9]\d*
MatchesPageAlternative(s) ==
    \E t \in NumberingTypes :
        LET head == PagePrefix \o t \o Colon
        IN  /\ StartsWith(s, head)
            /\ Len(s) > Len(head)
            /\ s[Len(head) + 1] \in DigitChars \ {"0"}
            /\ \A i \in (Len(head) + 2)..Len(s) : s[i] \in DigitChars

\* second alternative of _ANCHOR_PATTERNS: [a-z0-9_.-]+:[A-Za-z0-9_.-]+
MatchesGenericAlternative(s) ==
    \E k \in 2..(Len(s) - 1) :
        /\ s[k] = ":"
        /\ AllIn(SubSeq(s, 1, k - 1), NamespaceChars)
        /\ AllIn(SubSeq(s, k + 1, Len(s)), TokenChars)

\* _ANCHOR_PATTERNS.match(s) for ^(?:...|...)$ : in Python "$" matches at the
\* end of the string and also just before a newline that ends the string
AnchorPatternMatches(s) ==
    LET Body(b) == MatchesPageAlternative(b) \/ MatchesGenericAlternative(b)
    IN  \/ Body(s)
        \/ /\ Len(s) > 0
           /\ s[Len(s)] = "\n"
           /\ Body(SubSeq(s, 1, Len(s) - 1))

\* TargetNode.__post_init__: TRUE when it raises ValueError
TargetNodeRaises(target_id, page_number) ==
    \/ page_number < 1
    \/ target_id = <<>>
    \/ Strip(target_id, SpaceChars) = <<>>

\* SemanticReference.__post_init__: TRUE when it raises ValueError
SemanticReferenceRaises(source_page, short_anchor, context_sentence, source_bbox) ==
    \/ source_page < 1
    \/ ~AnchorPatternMatches(short_anchor)
    \/ Strip(context_sentence, SpaceChars) = <<>>
    \/ source_bbox[1] >= source_bbox[3]
    \/ source_bbox[2] >= source_bbox[4]

\* the constructor inputs tried
AnchorTokens == {PagePrefix, Arabic, Roman, Colon, <<"1">>, <<"0">>, <<"A">>, <<"\n">>}
AnchorInputs == {Flatten(ts) : ts \in SeqsUpTo(AnchorTokens, MaxAnchorTokens)}
PageInputs == {-1, 0, 1, 2}
TargetIdInputs ==
    {<<>>, <<" ">>, <<"\t", " ">>, <<"m", ":", "0", "1">>, <<" ", "x">>}
ContextInputs == {<<>>, <<" ">>, <<"\n", " ">>, <<"s", "e", "e">>}
\* (x0, y0, x1, y1)
BBoxInputs ==
    {<<0, 0, 1, 1>>, <<1, 0, 1, 1>>, <<0, 1, 1, 1>>, <<2, 0, 1, 1>>, <<0, 2, 1, 1>>}

CtorInit ==
    /\ ctorPc = "ready"
    /\ ctorArgs = [cls |-> "none"]
    /\ IdleExcept("ctor")

\* TargetNode(target_id, ..., page_number)
ConstructTargetNode ==
    /\ ctorPc = "ready"
    /\ \E id \in TargetIdInputs, page \in PageInputs :
          /\ ctorArgs' = [cls |-> "TargetNode", target_id |-> id,
                          page_number |-> page]
          /\ ctorPc' = IF TargetNodeRaises(id, page) THEN "raised" ELSE "built"
    /\ Frame("ctor")

\* SemanticReference(source_page, short_anchor, context_sentence, source_bbox)
ConstructSemanticReference ==
    /\ ctorPc = "ready"
    /\ \E page \in PageInputs, anchor \in AnchorInputs,
          ctx \in ContextInputs, bbox \in BBoxInputs :
          /\ ctorArgs' = [cls |-> "SemanticReference", source_page |-> page,
                          short_anchor |-> anchor, context_sentence |-> ctx,
                          source_bbox |-> bbox]
          /\ ctorPc' = IF SemanticReferenceRaises(page, anchor, ctx, bbox)
                       THEN "raised" ELSE "built"
    /\ Frame("ctor")

CtorNext == ConstructTargetNode \/ ConstructSemanticReference
SpecCtor == CtorInit /\ [][CtorNext]_vars

---------------------------------------------------------------------------
(* core/resolver.py                                                        *)

\* Bounds of the page-map lookup specification
MaxSegs    == 2
MaxPrinted == 3
\* Bounds of the resolve() specification
MaxRefs     == 2
MaxAstNodes == 2

\* An Optional value is a sequence: <<>> is None, <<x>> is x.
Some(x) == <<x>>

\* a page_map record of the rulebook, as the Inducer emits it without spacers
Segment(numbering, physicalStart, printedStart, printedEnd) ==
    [physical_start |-> physicalStart,
     physical_end   |-> physicalStart + (printedEnd - printedStart),
     printed_start  |-> printedStart,
     printed_end    |-> printedEnd,
     numbering      |-> numbering,
     spacers        |-> <<>>]

PhysicalStarts == {1, 5}
Segments ==
    {seg \in {Segment(t, ph, ps, pe) :
                 t \in NumberingTypes, ph \in PhysicalStarts,
                 ps \in 1..MaxPrinted, pe \in 1..MaxPrinted} :
        seg.printed_start <= seg.printed_end}
PageMaps == SeqsUpTo(Segments, MaxSegs)

\* _resolve_printed_to_physical with the type test dropped
RECURSIVE ScanAnyType(_, _, _)
ScanAnyType(pageMap, i, requested) ==
    IF i > Len(pageMap) THEN <<>>
    ELSE IF pageMap[i].printed_start <= requested
            /\ requested <= pageMap[i].printed_end
         THEN Some(pageMap[i].physical_start
                   + (requested - pageMap[i].printed_start))
         ELSE ScanAnyType(pageMap, i + 1, requested)
ResolvePrintedAnyType(pageMap, requested, numberingType) ==
    ScanAnyType(pageMap, 1, requested)

\* the loop of _resolve_printed_to_physical from segment i on
RECURSIVE ScanSegments(_, _, _, _)
ScanSegments(pageMap, i, requested, numberingType) ==
    IF i > Len(pageMap) THEN <<>>
    ELSE LET seg == pageMap[i]
         IN  IF seg.numbering # numberingType
             THEN ScanSegments(pageMap, i + 1, requested, numberingType)
             ELSE IF seg.printed_start <= requested
                     /\ requested <= seg.printed_end
                  THEN Some(seg.physical_start
                            + (requested - seg.printed_start))
                  ELSE ScanSegments(pageMap, i + 1, requested, numberingType)

\* EnterpriseResolver._resolve_printed_to_physical(requested_logical,
\* numbering_type): <<>> is None
ResolvePrintedToPhysical(pageMap, requested, numberingType) ==
    ScanSegments(pageMap, 1, requested, numberingType)

LookInit ==
    /\ lookPc = "ready"
    /\ lookMap \in PageMaps
    /\ lookVal = 0
    /\ lookType = <<>>
    /\ lookResult = <<>>
    /\ IdleExcept("look")

\* one call _resolve_printed_to_physical(v, t)
Lookup ==
    /\ lookPc = "ready"
    /\ \E v \in 1..(MaxPrinted + 1), t \in NumberingTypes :
          /\ lookVal' = v
          /\ lookType' = t
          /\ lookResult' = ResolvePrintedToPhysical(lookMap, v, t)
    /\ lookPc' = "done"
    /\ UNCHANGED <<lookMap>>
    /\ Frame("look")

LookNext == Lookup
SpecLookup == LookInit /\ [][LookNext]_vars

\* --- resolve() ---
TargetNode(targetId, targetType, exactName, pageNumber, confidence) ==
    [target_id |-> targetId, target_type |-> targetType,
     exact_name |-> exactName, page_number |-> pageNumber,
     confidence |-> confidence]

\* a SemanticReference as the Miner hands it over: unresolved, score 0
SemanticReference(sourcePage, anchor, bbox) ==
    [source_page |-> sourcePage, short_anchor |-> anchor,
     context_sentence |-> <<"s", "e", "e">>, source_bbox |-> bbox,
     resolved_target |-> <<>>, resolution_score |-> 0]

\* ast_dict = {node.target_id: node for node in self.ast}; ast_dict.get(urn):
\* of several nodes with one identifier the last one stays in the dictionary
AstDictGet(ast, urn) ==
    LET hits == {k \in 1..Len(ast) : ast[k].target_id = urn}
    IN  IF hits = {} THEN <<>>
        ELSE Some(ast[CHOOSE k \in hits : \A j \in hits : j <= k])

\* EnterpriseResolver._find_synthetic_page: a stub that returns None
FindSyntheticPage(urn) == <<>>

Outcome(kind, target, score) == [kind |-> kind, target |-> target, score |-> score]

ResolveOneSyntheticScore(ref, ast, pageMap) ==
    LET urn == ref.short_anchor
    IN  IF StartsWith(urn, PagePrefix)
        THEN LET parts == Split(urn, ":")
             IN  IF Len(parts) # 3 THEN Outcome("dropped", <<>>, 0)
                 ELSE IF ~IntParses(parts[3]) THEN Outcome("raised", <<>>, 0)
                 ELSE LET target_phys ==
                              ResolvePrintedToPhysical(pageMap,
                                  StrToInt(parts[3]), parts[2])
                      IN  IF target_phys = <<>>
                          THEN Outcome("dropped", <<>>, 0)
                          ELSE IF TargetNodeRaises(urn, target_phys[1])
                          THEN Outcome("raised", <<>>, 0)
                          ELSE Outcome("resolved",
                                   Some(TargetNode(urn, "direct_page", urn,
                                                   target_phys[1], 50)),
                                   50)
        ELSE LET matched == AstDictGet(ast, urn)
             IN  IF matched # <<>>
                 THEN Outcome("resolved", matched, matched[1].confidence)
                 ELSE LET fallback_page == FindSyntheticPage(urn)
                      IN  IF fallback_page # <<>>
                          THEN Outcome("resolved",
                                   Some(TargetNode(urn, "synthetic_asset",
                                       <<"S">> \o urn, fallback_page[1], 50)),
                                   50)
                          ELSE Outcome("dropped", <<>>, 0)

\* the loop body of resolve() for one reference: "resolved" sets the target
\* and the score and appends the reference, "dropped" is a continue, "raised"
\* is an exception leaving resolve()
ResolveOne(ref, ast, pageMap) ==
    LET urn == ref.short_anchor
    IN  IF StartsWith(urn, PagePrefix)
        THEN LET parts == Split(urn, ":")
             IN  IF Len(parts) # 3 THEN Outcome("dropped", <<>>, 0)
                 ELSE IF ~IntParses(parts[3]) THEN Outcome("raised", <<>>, 0)
                 ELSE LET target_phys ==
                              ResolvePrintedToPhysical(pageMap,
                                  StrToInt(parts[3]), parts[2])
                      IN  IF target_phys = <<>>
                          THEN Outcome("dropped", <<>>, 0)
                          ELSE IF TargetNodeRaises(urn, target_phys[1])
                          THEN Outcome("raised", <<>>, 0)
                          ELSE Outcome("resolved",
                                   Some(TargetNode(urn, "direct_page", urn,
                                                   target_phys[1], 100)),
                                   100)
        ELSE LET matched == AstDictGet(ast, urn)
             IN  IF matched # <<>>
                 THEN Outcome("resolved", matched, matched[1].confidence)
                 ELSE LET fallback_page == FindSyntheticPage(urn)
                      IN  IF fallback_page # <<>>
                          THEN Outcome("resolved",
                                   Some(TargetNode(urn, "synthetic_asset",
                                       <<"S">> \o urn, fallback_page[1], 50)),
                                   50)
                          ELSE Outcome("dropped", <<>>, 0)

\* the inputs of resolve()
Anchor(ns, token) == ns \o Colon \o token
LinkAnchors ==
    {GeneratePageUrn(1, Arabic), GeneratePageUrn(MaxPrinted + 1, Arabic),
     GeneratePageUrn(1, Roman),
     Anchor(PageWord, <<"0", "1">>),
     Anchor(<<"m", "a", "p">>, <<"0", "1">>),
     Anchor(<<"f", "i", "g">>, <<"0", "1">>)}
RefInputs ==
    {SemanticReference(1, a, <<0, 0, 1, 1>>) : a \in
        {a \in LinkAnchors :
            ~SemanticReferenceRaises(1, a, <<"s", "e", "e">>, <<0, 0, 1, 1>>)}}
AstNodeInputs ==
    {n \in {TargetNode(GenerateStructuralUrn(<<"m", "a", "p">>, 1), "asset",
                       <<"M">>, 2, 100),
            TargetNode(GenerateStructuralUrn(<<"m", "a", "p">>, 1), "asset",
                       <<"N">>, 3, 50),
            TargetNode(GenerateStructuralUrn(Slugify(<<"P", "a", "g", "e">>,
                                                     DefaultFallback), 1),
                       "hierarchy", <<"P">>, 1, 100)} :
        ~TargetNodeRaises(n.target_id, n.page_number)}
LinkPageMaps ==
    {<<>>} \cup
    {<<seg>> : seg \in {sg \in Segments :
                           sg.physical_start = 1 /\ sg.printed_start = 1}}

LinkInit ==
    /\ linkPc = "loop"
    /\ linkAst \in SeqsUpTo(AstNodeInputs, MaxAstNodes)
    /\ linkMap \in LinkPageMaps
    /\ linkRefs \in SeqsUpTo(RefInputs, MaxRefs)
    /\ linkI = 1
    /\ linkOut = <<>>
    /\ IdleExcept("link")

\* one iteration of "for ref in self.refs"
ResolveRef ==
    /\ linkPc = "loop"
    /\ linkI <= Len(linkRefs)
    /\ LET o == ResolveOne(linkRefs[linkI], linkAst, linkMap)
       IN  /\ linkPc' = IF o.kind = "raised" THEN "raised" ELSE "loop"
           /\ linkRefs' =
                 IF o.kind = "resolved"
                 THEN [linkRefs EXCEPT ![linkI].resolved_target = o.target,
                                       ![linkI].resolution_score = o.score]
                 ELSE linkRefs
           /\ linkOut' = IF o.kind = "resolved"
                         THEN Append(linkOut, linkI) ELSE linkOut
    /\ linkI' = linkI + 1
    /\ UNCHANGED <<linkAst, linkMap>>
    /\ Frame("link")

\* return resolved_refs
ResolveReturn ==
    /\ linkPc = "loop"
    /\ linkI > Len(linkRefs)
    /\ linkPc' = "returned"
    /\ UNCHANGED <<linkAst, linkMap, linkRefs, linkI, linkOut>>
    /\ Frame("link")

LinkNext == ResolveRef \/ ResolveReturn
SpecLinker == LinkInit /\ [][LinkNext]_vars

---------------------------------------------------------------------------
(* core/annotator.py                                                       *)

\* Bounds of the annotator specification: the pages of the document and the
\* length of the list given to annotate()
MaxDocPages == 2
MaxAnnRefs  == 2

\* EnterpriseAnnotator.__init__: min_confidence = 0.75, in hundredths
MinConfidence == 75

\* what the loop body of annotate() does with one reference: "skip" (not
\* resolved), "drop" (score below the threshold), "raise" (IndexError: a page
\* out of the document's bounds) or "insert", with the link for insert_link
LinkData(ref) ==
    [kind |-> "LINK_GOTO",
     on   |-> ref.source_page - 1,
     from |-> ref.source_bbox,
     page |-> ref.resolved_target[1].page_number - 1,
     zoom |-> 0]

\* the loop body with a confidence gate that also drops a score equal to
\* the threshold
AnnotateOneStrictGate(ref, total_pages, min_confidence) ==
    IF ref.resolved_target = <<>> THEN "skip"
    ELSE IF ref.resolution_score <= min_confidence THEN "drop"
    ELSE IF ~(0 <= ref.source_page - 1 /\ ref.source_page - 1 < total_pages)
    THEN "raise"
    ELSE IF ~(0 <= ref.resolved_target[1].page_number - 1
              /\ ref.resolved_target[1].page_number - 1 < total_pages)
    THEN "raise"
    ELSE "insert"

\* the loop body with an off-by-one upper bound on the source page
AnnotateOneLaxSource(ref, total_pages, min_confidence) ==
    IF ref.resolved_target = <<>> THEN "skip"
    ELSE IF ref.resolution_score < min_confidence THEN "drop"
    ELSE IF ~(0 <= ref.source_page - 1 /\ ref.source_page - 1 <= total_pages)
    THEN "raise"
    ELSE IF ~(0 <= ref.resolved_target[1].page_number - 1
              /\ ref.resolved_target[1].page_number - 1 < total_pages)
    THEN "raise"
    ELSE "insert"

\* the loop body that skips a reference with a target page out of bounds
\* instead of raising
AnnotateOneSkipTarget(ref, total_pages, min_confidence) ==
    IF ref.resolved_target = <<>> THEN "skip"
    ELSE IF ref.resolution_score < min_confidence THEN "drop"
    ELSE IF ~(0 <= ref.source_page - 1 /\ ref.source_page - 1 < total_pages)
    THEN "raise"
    ELSE IF ~(0 <= ref.resolved_target[1].page_number - 1
              /\ ref.resolved_target[1].page_number - 1 < total_pages)
    THEN "skip"
    ELSE "insert"

AnnotateOne(ref, total_pages, min_confidence) ==
    IF ref.resolved_target = <<>> THEN "skip"
    ELSE IF ref.resolution_score < min_confidence THEN "drop"
    ELSE LET source_page_idx == ref.source_page - 1
             target_page_idx == ref.resolved_target[1].page_number - 1
         IN  IF ~(0 <= source_page_idx /\ source_page_idx < total_pages)
             THEN "raise"
             ELSE IF ~(0 <= target_page_idx /\ target_page_idx < total_pages)
             THEN "raise"
             ELSE "insert"

\* the references given to annotate(): constructed objects (pages >= 1), not
\* resolved with score 0, or resolved with a score; the i-th reference has
\* its own bounding box
AnnPages  == 1..(MaxDocPages + 1)
AnnScores == {50, 75, 100}
AnnRefKinds ==
    {SemanticReference(sp, GeneratePageUrn(1, Arabic), <<0, 0, 1, 1>>) :
        sp \in AnnPages}
    \cup
    {[SemanticReference(sp, GeneratePageUrn(1, Arabic), <<0, 0, 1, 1>>)
        EXCEPT !.resolved_target =
                   Some(TargetNode(GeneratePageUrn(1, Arabic), "direct_page",
                                   GeneratePageUrn(1, Arabic), tp, sc)),
               !.resolution_score = sc] :
        sp \in AnnPages, tp \in AnnPages, sc \in AnnScores}
WithOwnBoxes(refs) ==
    [i \in 1..Len(refs) |->
        [refs[i] EXCEPT !.source_bbox = <<10 * i, 0, 10 * i + 5, 5>>]]

AnnInit ==
    /\ annPc = "start"
    /\ annRefs \in {WithOwnBoxes(rs) : rs \in SeqsUpTo(AnnRefKinds, MaxAnnRefs)}
    /\ annI = 1
    /\ annDocOpen = FALSE
    /\ annLinks = <<>>
    /\ annSaveCalls = 0
    /\ annOutput = <<>>
    /\ IdleExcept("ann")

\* os.path.exists(self.pdf_path) fails: FileNotFoundError before the open
AnnSourceMissing ==
    /\ annPc = "start"
    /\ annPc' = "raised"
    /\ UNCHANGED <<annRefs, annI, annDocOpen, annLinks, annSaveCalls, annOutput>>
    /\ Frame("ann")

\* doc = fitz.open(self.pdf_path); total_pages = len(doc)
AnnOpen ==
    /\ annPc = "start"
    /\ annDocOpen' = TRUE
    /\ annPc' = "loop"
    /\ UNCHANGED <<annRefs, annI, annLinks, annSaveCalls, annOutput>>
    /\ Frame("ann")

\* one iteration of "for ref in resolved_refs"
AnnProcessRef ==
    /\ annPc = "loop"
    /\ annI <= Len(annRefs)
    /\ LET todo == AnnotateOne(annRefs[annI], MaxDocPages, MinConfidence)
       IN  /\ annPc' = IF todo = "raise" THEN "except" ELSE "loop"
           /\ annLinks' = IF todo = "insert"
                          THEN Append(annLinks, LinkData(annRefs[annI]))
                          ELSE annLinks
    /\ annI' = annI + 1
    /\ UNCHANGED <<annRefs, annDocOpen, annSaveCalls, annOutput>>
    /\ Frame("ann")

\* doc.save(self.output_path, ...) after the loop
AnnSave ==
    /\ annPc = "loop"
    /\ annI > Len(annRefs)
    /\ annSaveCalls' = annSaveCalls + 1
    /\ annOutput' = Some(annLinks)
    /\ annPc' = "saved"
    /\ UNCHANGED <<annRefs, annI, annDocOpen, annLinks>>
    /\ Frame("ann")

\* finally: doc.close(), then return True or the re-raised exception
AnnFinally ==
    /\ annPc \in {"saved", "except"}
    /\ annDocOpen' = FALSE
    /\ annPc' = IF annPc = "saved" THEN "returned" ELSE "raised"
    /\ UNCHANGED <<annRefs, annI, annLinks, annSaveCalls, annOutput>>
    /\ Frame("ann")

AnnNext == AnnSourceMissing \/ AnnOpen \/ AnnProcessRef \/ AnnSave \/ AnnFinally
SpecAnnotator == AnnInit /\ [][AnnNext]_vars

---------------------------------------------------------------------------
(* core/profiler.py: topology induction in EnterpriseProfiler.run()        *)
(*                                                                         *)
(* The floating-point quantities are computed in integers: the sums of     *)
(* squared deviations are multiplied by the length of the chain (which     *)
(* cancels in r and in the slope), the two thresholds are compared         *)
(* exactly, and r, the standard deviations and the score are thousandths,  *)
(* rounded down.                                                           *)

\* Bound of the topology specification: the pages of the document
MaxTopoPage == 14

\* the longest-path edge tolerates |dp_gap - dv_gap| <= 20
GapTolerance == 20
\* streams and chains shorter than 3 are skipped
MinChainLen == 3

Abs(n) == IF n < 0 THEN 0 - n ELSE n

RECURSIVE SumSeq(_)
SumSeq(seq) == IF seq = <<>> THEN 0 ELSE Head(seq) + SumSeq(Tail(seq))

\* math.sqrt, rounded down to an integer
RECURSIVE IsqrtBetween(_, _, _)
IsqrtBetween(n, lo, hi) ==
    IF lo >= hi THEN lo
    ELSE LET mid == (lo + hi + 1) \div 2
         IN  IF mid * mid <= n THEN IsqrtBetween(n, mid, hi)
             ELSE IsqrtBetween(n, lo, mid - 1)
Isqrt(n) == IsqrtBetween(n, 0, 46340)

\* the quotient a / b with k more decimal digits, rounded down
RECURSIVE FractionDigits(_, _, _, _)
FractionDigits(rem, b, k, acc) ==
    IF k = 0 THEN acc
    ELSE FractionDigits((rem * 10) % b, b, k - 1, acc * 10 + (rem * 10) \div b)
Quotient(a, b, k) == FractionDigits(a % b, b, k, a \div b)

\* a numeral found in a line of the document: page (1-indexed), value, x of
\* the line, numbering type and band of the line ("header", "footer", or
\* "body" for a line outside both margins)
Token(p, val, x, type, band) ==
    [p |-> p, val |-> val, x |-> x, type |-> type, y_band_label |-> band]

\* the data collection loop: a token of a line in the header or the footer
\* margin with 0 < val <= total_pages * 2 becomes a topology candidate
IsCandidate(tok, total_pages) ==
    /\ tok.y_band_label \in {"header", "footer"}
    /\ 0 < tok.val /\ tok.val <= total_pages * 2
CollectCandidates(doc, total_pages) ==
    SelectSeq(doc, LAMBDA tok : IsCandidate(tok, total_pages))

\* streams[(c['type'], c['y_band_label'])]: the keys in insertion order
StreamKey(c) == <<c.type, c.y_band_label>>
RECURSIVE StreamKeys(_)
StreamKeys(cands) ==
    IF cands = <<>> THEN <<>>
    ELSE LET front == StreamKeys(SubSeq(cands, 1, Len(cands) - 1))
             key   == StreamKey(cands[Len(cands)])
         IN  IF \E i \in 1..Len(front) : front[i] = key THEN front
             ELSE Append(front, key)
StreamOf(cands, key) == SelectSeq(cands, LAMBDA c : StreamKey(c) = key)

\* stream.sort(key=lambda x: (x['p'], x['x'])), a stable sort
SortsBefore(c, d) == c.p < d.p \/ (c.p = d.p /\ c.x < d.x)
RECURSIVE InsertByPX(_, _)
InsertByPX(sorted, c) ==
    IF sorted = <<>> THEN <<c>>
    ELSE IF SortsBefore(c, Head(sorted)) THEN <<c>> \o sorted
    ELSE <<Head(sorted)>> \o InsertByPX(Tail(sorted), c)
RECURSIVE SortByPX(_)
SortByPX(stream) ==
    IF stream = <<>> THEN <<>>
    ELSE InsertByPX(SortByPX(SubSeq(stream, 1, Len(stream) - 1)),
                    stream[Len(stream)])

\* the edge u -> v of the DAG
ValidEdge(u, v) ==
    LET dp_gap == v.p - u.p
        dv_gap == v.val - u.val
    IN  /\ dp_gap > 0
        /\ dv_gap > 0
        /\ Abs(dp_gap - dv_gap) <= GapTolerance

\* "for j in range(i)": cell is <<dp_lengths[i], dp_prev[i]>>; positions
\* count from 1 and the predecessor 0 stands for -1
RECURSIVE DpInner(_, _, _, _, _)
DpInner(stream, dp_lengths, i, j, cell) ==
    IF j >= i THEN cell
    ELSE DpInner(stream, dp_lengths, i, j + 1,
                 IF /\ ValidEdge(stream[j], stream[i])
                    /\ dp_lengths[j] + 1 > cell[1]
                 THEN <<dp_lengths[j] + 1, j>>
                 ELSE cell)
\* "for i in range(1, n)"
RECURSIVE DpOuter(_, _, _, _)
DpOuter(stream, i, dp_lengths, dp_prev) ==
    IF i > Len(stream) THEN [lengths |-> dp_lengths, prev |-> dp_prev]
    ELSE LET cell == DpInner(stream, dp_lengths, i, 1, <<1, 0>>)
         IN  DpOuter(stream, i + 1, Append(dp_lengths, cell[1]),
                     Append(dp_prev, cell[2]))
LongestPathTable(stream) == DpOuter(stream, 1, <<>>, <<>>)

\* dp_lengths.index(max(dp_lengths))
MaxOf(seq) ==
    CHOOSE m \in {seq[i] : i \in 1..Len(seq)} : \A i \in 1..Len(seq) : seq[i] <= m
FirstIndexOf(seq, m) ==
    CHOOSE i \in 1..Len(seq) : seq[i] = m /\ \A k \in 1..(i - 1) : seq[k] # m
\* the walk back along dp_prev, reversed
RECURSIVE WalkBack(_, _, _)
WalkBack(stream, dp_prev, curr) ==
    IF curr = 0 THEN <<>>
    ELSE Append(WalkBack(stream, dp_prev, dp_prev[curr]), stream[curr])
\* the walk back started at the last candidate instead of the first maximum
StreamMaxChainFromLast(stream) ==
    WalkBack(stream, LongestPathTable(stream).prev, Len(stream))
StreamMaxChain(stream) ==
    LET table == LongestPathTable(stream)
    IN  WalkBack(stream, table.prev,
                 FirstIndexOf(table.lengths, MaxOf(table.lengths)))

\* Pearson correlation along the chain: var_p, var_v and cov, each times n
ChainStats(chain) ==
    LET n      == Len(chain)
        p_vals == [i \in 1..n |-> chain[i].p]
        v_vals == [i \in 1..n |-> chain[i].val]
    IN  [var_p |-> n * SumSeq([i \in 1..n |-> p_vals[i] * p_vals[i]])
                   - SumSeq(p_vals) * SumSeq(p_vals),
         var_v |-> n * SumSeq([i \in 1..n |-> v_vals[i] * v_vals[i]])
                   - SumSeq(v_vals) * SumSeq(v_vals),
         cov   |-> n * SumSeq([i \in 1..n |-> p_vals[i] * v_vals[i]])
                   - SumSeq(p_vals) * SumSeq(v_vals)]
\* r < 0.5, for var_p and var_v not 0
RBelowHalf(st) == st.cov < 0 \/ 4 * st.cov * st.cov < st.var_p * st.var_v
\* slope < 0.2, for var_p not 0
SlopeBelowFifth(st) == 5 * st.cov < st.var_p
\* r in thousandths, for cov >= 0
RMilli(st) == Isqrt(Quotient(st.cov * st.cov, st.var_p * st.var_v, 6))

\* statistics.stdev in thousandths, 0.0 for fewer than two values
StdevMilli(xs) ==
    LET n == Len(xs)
    IN  IF n <= 1 THEN 0
        ELSE Isqrt(((n * SumSeq([i \in 1..n |-> xs[i] * xs[i]])
                     - SumSeq(xs) * SumSeq(xs)) * 1000000) \div (n * (n - 1)))
\* the geometric penalty avg_std_x in thousandths
AvgStdXMilli(chain) ==
    LET xsOf(sel) == [i \in 1..Len(sel) |-> sel[i].x]
        even_x == xsOf(SelectSeq(chain, LAMBDA c : c.p % 2 = 0))
        odd_x  == xsOf(SelectSeq(chain, LAMBDA c : c.p % 2 # 0))
    IN  (StdevMilli(even_x) + StdevMilli(odd_x)) \div 2
\* score = (len(stream_max_chain) * r) / (avg_std_x + 1.0), in thousandths
ScoreMilli(chain) ==
    (Len(chain) * RMilli(ChainStats(chain)) * 1000)
        \div (AvgStdXMilli(chain) + 1000)

Verdict(kind, chain, score) == [kind |-> kind, chain |-> chain, score |-> score]

\* one iteration of "for key, stream in streams.items()" without the
\* correlation threshold
EvaluateStreamAnyR(stream) ==
    IF Len(stream) < MinChainLen THEN Verdict("short_stream", <<>>, 0)
    ELSE LET stream_max_chain == StreamMaxChain(SortByPX(stream))
             st == ChainStats(stream_max_chain)
         IN  IF Len(stream_max_chain) < MinChainLen
             THEN Verdict("short_chain", stream_max_chain, 0)
             ELSE IF st.var_p = 0 \/ st.var_v = 0
             THEN Verdict("constant", stream_max_chain, 0)
             ELSE IF st.cov < 0 \/ SlopeBelowFifth(st)
             THEN Verdict("uncorrelated", stream_max_chain, 0)
             ELSE Verdict("scored", stream_max_chain,
                          ScoreMilli(stream_max_chain))

\* one iteration of "for key, stream in streams.items()" up to the score
EvaluateStream(stream) ==
    IF Len(stream) < MinChainLen THEN Verdict("short_stream", <<>>, 0)
    ELSE LET stream_max_chain == StreamMaxChain(SortByPX(stream))
             st == ChainStats(stream_max_chain)
         IN  IF Len(stream_max_chain) < MinChainLen
             THEN Verdict("short_chain", stream_max_chain, 0)
             ELSE IF st.var_p = 0 \/ st.var_v = 0
             THEN Verdict("constant", stream_max_chain, 0)
             ELSE IF RBelowHalf(st) \/ SlopeBelowFifth(st)
             THEN Verdict("uncorrelated", stream_max_chain, 0)
             ELSE Verdict("scored", stream_max_chain,
                          ScoreMilli(stream_max_chain))

\* the content weight of a physical page (_compute_content_weight): the
\* pages get heavier, get lighter, or all weigh the same
WeightProfiles == {"rising", "falling", "flat"}
ContentWeight(profile, phys_p) ==
    IF profile = "rising" THEN phys_p
    ELSE IF profile = "falling" THEN 0 - phys_p
    ELSE 0

\* gap_pages.sort(key=lambda x: x['weight'], reverse=True), a stable sort
RECURSIVE InsertByWeight(_, _, _)
InsertByWeight(sorted, phys_p, profile) ==
    IF sorted = <<>> THEN <<phys_p>>
    ELSE IF ContentWeight(profile, phys_p) > ContentWeight(profile, Head(sorted))
    THEN <<phys_p>> \o sorted
    ELSE <<Head(sorted)>> \o InsertByWeight(Tail(sorted), phys_p, profile)
\* the gap pages left in page order
HeaviestFirstUnsorted(pages, profile) == pages
RECURSIVE HeaviestFirst(_, _)
HeaviestFirst(pages, profile) ==
    IF pages = <<>> THEN <<>>
    ELSE InsertByWeight(HeaviestFirst(SubSeq(pages, 1, Len(pages) - 1), profile),
                        pages[Len(pages)], profile)

\* curr_seg for a first candidate
NewSegment(p, val, n_type) ==
    [physical_start |-> p, physical_end |-> p,
     printed_start |-> val, printed_end |-> val,
     last |-> val, run |-> 1, numbering |-> n_type,
     stride |-> <<>>, spacers |-> <<>>]
\* the dictionary appended to page_map with the spacers left out
EmittedWithoutSpacers(seg) ==
    [physical_start |-> seg.physical_start, physical_end |-> seg.physical_end,
     printed_start |-> seg.printed_start, printed_end |-> seg.printed_end,
     numbering |-> seg.numbering, spacers |-> <<>>]
\* the dictionary appended to page_map
Emitted(seg) ==
    [physical_start |-> seg.physical_start, physical_end |-> seg.physical_end,
     printed_start |-> seg.printed_start, printed_end |-> seg.printed_end,
     numbering |-> seg.numbering, spacers |-> seg.spacers]

\* winning_cands_by_page = {c['p']: c for c in winning_chain}
CandidateOnPage(chain, p) ==
    LET on == SelectSeq(chain, LAMBDA c : c.p = p)
    IN  IF on = <<>> THEN <<>> ELSE <<on[Len(on)]>>

\* the body of the stitching loop for a page p that has a candidate; st is
\* page_map and curr_seg (<<>> is None)
StitchCandidate(st, p, best, profile) ==
    LET val == best.val
        n_type == best.type
        closed == IF st.curr_seg = <<>> THEN st.page_map
                  ELSE Append(st.page_map, Emitted(st.curr_seg[1]))
        restart == [page_map |-> closed,
                    curr_seg |-> <<NewSegment(p, val, n_type)>>]
    IN  IF st.curr_seg # <<>> /\ n_type = st.curr_seg[1].numbering
        THEN LET seg == st.curr_seg[1]
             IN  IF val > seg.last
                 THEN LET P1 == seg.physical_end
                          N1 == seg.last
                          P2 == p
                          N2 == val
                          stride == IF seg.stride = <<>> THEN 1 ELSE seg.stride[1]
                          missing_printed ==
                              IF (N2 - N1) % stride # 0 THEN 0
                              ELSE IF (N2 - N1) \div stride - 1 < 0 THEN 0
                              ELSE (N2 - N1) \div stride - 1
                          gap_physical_pages == P2 - P1 - 1
                          gap_pages ==
                              HeaviestFirst([k \in 1..gap_physical_pages |-> P1 + k],
                                            profile)
                          moved == [seg EXCEPT !.printed_end = N2,
                                               !.physical_end = P2,
                                               !.last = N2]
                      IN  IF gap_physical_pages = 0 /\ missing_printed = 0
                          THEN [st EXCEPT !.curr_seg =
                                   <<[moved EXCEPT
                                        !.stride = IF seg.run = 1
                                                   THEN <<val - seg.last>>
                                                   ELSE @,
                                        !.run = @ + 1]>>]
                          ELSE IF gap_physical_pages > missing_printed
                          THEN [st EXCEPT !.curr_seg =
                                   <<[moved EXCEPT
                                        !.spacers = @ \o SubSeq(gap_pages,
                                                        missing_printed + 1,
                                                        Len(gap_pages)),
                                        !.run = @ + 1 + missing_printed]>>]
                          ELSE IF gap_physical_pages = missing_printed
                          THEN [st EXCEPT !.curr_seg =
                                   <<[moved EXCEPT
                                        !.run = @ + 1 + missing_printed]>>]
                          ELSE restart
                 ELSE restart
        ELSE restart

\* "for p in range(1, self.topo_scan_limit + 1)"
RECURSIVE StitchFrom(_, _, _, _, _)
StitchFrom(st, p, limit, chain, profile) ==
    IF p > limit THEN st
    ELSE LET best == CandidateOnPage(chain, p)
         IN  StitchFrom(IF best = <<>> THEN st
                        ELSE StitchCandidate(st, p, best[1], profile),
                        p + 1, limit, chain, profile)
\* segment stitching that leaves the last running segment out
StitchSegmentsDropLast(chain, limit, profile) ==
    StitchFrom([page_map |-> <<>>, curr_seg |-> <<>>], 1, limit,
               chain, profile).page_map
\* segment stitching, with the last running segment appended
StitchSegments(chain, limit, profile) ==
    LET st == StitchFrom([page_map |-> <<>>, curr_seg |-> <<>>], 1, limit,
                         chain, profile)
    IN  IF st.curr_seg = <<>> THEN st.page_map
        ELSE Append(st.page_map, Emitted(st.curr_seg[1]))

\* the documents: numerals on the pages 1, 2, 3 and on the last page, in the
\* footer (arabic) and in the header (roman), in reading order
OptionalToken(toks) == {<<>>} \cup {<<tok>> : tok \in toks}
FooterTokens(p, vals) == {Token(p, val, 0, Arabic, "footer") : val \in vals}
HeaderTokens(p, vals) == {Token(p, val, 0, Roman, "header") : val \in vals}
TopoDocs ==
    {h1 \o f1 \o h2 \o e2 \o f2 \o h3 \o f3 \o h4 \o f4 :
        h1 \in OptionalToken(HeaderTokens(1, {1})),
        f1 \in OptionalToken(FooterTokens(1, {1, 0})
                             \cup {Token(1, 1, 0, Arabic, "body")}),
        h2 \in OptionalToken(HeaderTokens(2, {2})),
        e2 \in OptionalToken({Token(2, 3, 4, Arabic, "footer")}),
        f2 \in OptionalToken(FooterTokens(2, {2, 22, 23})),
        h3 \in OptionalToken(HeaderTokens(3, {3})),
        f3 \in OptionalToken(FooterTokens(3, {3, 23, 1})),
        h4 \in OptionalToken(HeaderTokens(MaxTopoPage, {4})),
        f4 \in OptionalToken(FooterTokens(MaxTopoPage, {3, 24, 2 * MaxTopoPage + 1})
                             \cup {Token(MaxTopoPage, 4, 4, Arabic, "footer")})}

\* EnterpriseProfiler.__init__ opened the document
TopoInit ==
    /\ topoPc = "collect"
    /\ topoDoc \in TopoDocs
    /\ topoCands = <<>>
    /\ topoKeys = <<>>
    /\ topoK = 1
    /\ topoBestScore = -1000
    /\ topoWinKey = <<>>
    /\ topoWinChain = <<>>
    /\ topoPageMap = <<>>
    /\ topoWeights = "none"
    /\ topoDocOpen = TRUE
    /\ IdleExcept("topo")

\* 1. data collection; no line of text at all raises RuntimeError
TopoCollect ==
    /\ topoPc = "collect"
    /\ IF topoDoc = <<>>
       THEN /\ topoPc' = "except"
            /\ UNCHANGED <<topoCands, topoKeys>>
       ELSE /\ topoPc' = "induce"
            /\ topoCands' = CollectCandidates(topoDoc, MaxTopoPage)
            /\ topoKeys' = StreamKeys(CollectCandidates(topoDoc, MaxTopoPage))
    /\ UNCHANGED <<topoDoc, topoK, topoBestScore, topoWinKey, topoWinChain,
                   topoPageMap, topoWeights, topoDocOpen>>
    /\ Frame("topo")

\* 4. one iteration of "for key, stream in streams.items()"
TopoInduce ==
    /\ topoPc = "induce"
    /\ topoK <= Len(topoKeys)
    /\ LET key == topoKeys[topoK]
           verdict == EvaluateStream(StreamOf(topoCands, key))
       IN  IF verdict.kind = "scored" /\ verdict.score > topoBestScore
           THEN /\ topoBestScore' = verdict.score
                /\ topoWinKey' = <<key>>
                /\ topoWinChain' = verdict.chain
           ELSE UNCHANGED <<topoBestScore, topoWinKey, topoWinChain>>
    /\ topoK' = topoK + 1
    /\ UNCHANGED <<topoPc, topoDoc, topoCands, topoKeys, topoPageMap,
                   topoWeights, topoDocOpen>>
    /\ Frame("topo")

\* segment stitching over the winning chain; an empty page_map raises
\* RuntimeError (TOPOLOGY_INDUCTION_FAILED)
TopoStitch ==
    /\ topoPc = "induce"
    /\ topoK > Len(topoKeys)
    /\ \E profile \in WeightProfiles :
          /\ topoWeights' = profile
          /\ topoPageMap' = StitchSegments(topoWinChain, MaxTopoPage, profile)
    /\ topoPc' = IF topoPageMap' = <<>> THEN "except" ELSE "mapped"
    /\ UNCHANGED <<topoDoc, topoCands, topoKeys, topoK, topoBestScore,
                   topoWinKey, topoWinChain, topoDocOpen>>
    /\ Frame("topo")

\* finally: self.doc.close(), then the profile is returned or the error
\* propagates
TopoFinally ==
    /\ topoPc \in {"mapped", "except"}
    /\ topoDocOpen' = FALSE
    /\ topoPc' = IF topoPc = "mapped" THEN "returned" ELSE "raised"
    /\ UNCHANGED <<topoDoc, topoCands, topoKeys, topoK, topoBestScore,
                   topoWinKey, topoWinChain, topoPageMap, topoWeights>>
    /\ Frame("topo")

TopoNext == TopoCollect \/ TopoInduce \/ TopoStitch \/ TopoFinally
SpecTopology == TopoInit /\ [][TopoNext]_vars

---------------------------------------------------------------------------
(* core/miner.py and core/profiler.py: the strict roman grammar and the    *)
(* conversion of a roman numeral                                           *)

\* Bound of the roman specification: the length of the arbitrary tokens
MaxTokenLen == 3

\* the letter LATIN SMALL LETTER DOTLESS I, one character that is no ASCII
\* letter; str.lower() leaves it as it is
DotlessI == "U+0131"

\* re.IGNORECASE: the character c matches the lower-case letter of a pattern
\* (the dotless i is a case variant of i for the re module)
MatchesIgnoreCase(c, letter) ==
    LowerChar(c) = letter \/ (letter = "i" /\ c = DotlessI)
MatchesWordIgnoreCase(s, word) ==
    /\ Len(s) = Len(word)
    /\ \A k \in 1..Len(word) : MatchesIgnoreCase(s[k], word[k])

\* the languages of m{0,4}, (cm|cd|d?c{0,3}), (xc|xl|l?x{0,3}) and
\* (ix|iv|v?i{0,3})
ThousandsWords == {<<>>, <<"m">>, <<"m","m">>, <<"m","m","m">>,
                   <<"m","m","m","m">>}
HundredsWords  == {<<"c","m">>, <<"c","d">>, <<>>, <<"c">>, <<"c","c">>,
                   <<"c","c","c">>, <<"d">>, <<"d","c">>, <<"d","c","c">>,
                   <<"d","c","c","c">>}
TensWords      == {<<"x","c">>, <<"x","l">>, <<>>, <<"x">>, <<"x","x">>,
                   <<"x","x","x">>, <<"l">>, <<"l","x">>, <<"l","x","x">>,
                   <<"l","x","x","x">>}
UnitsWords     == {<<"i","x">>, <<"i","v">>, <<>>, <<"i">>, <<"i","i">>,
                   <<"i","i","i">>, <<"v">>, <<"v","i">>, <<"v","i","i">>,
                   <<"v","i","i","i">>}

\* s, from position from on, is one word of each of the languages in turn
RECURSIVE MatchesGroups(_, _, _)
MatchesGroups(s, from, groups) ==
    IF groups = <<>> THEN from = Len(s) + 1
    ELSE \E w \in Head(groups) :
            /\ from + Len(w) - 1 <= Len(s)
            /\ MatchesWordIgnoreCase(SubSeq(s, from, from + Len(w) - 1), w)
            /\ MatchesGroups(s, from + Len(w), Tail(groups))

\* roman_validator.match(token) / ROMAN_VALIDATOR.match(s): "$" also matches
\* before a newline that ends the string
RomanValidatorMatches(s) ==
    LET body == IF s # <<>> /\ s[Len(s)] = "\n"
                THEN {s, SubSeq(s, 1, Len(s) - 1)} ELSE {s}
    IN  \E t \in body :
           MatchesGroups(t, 1, <<ThousandsWords, HundredsWords, TensWords,
                                 UnitsWords>>)

\* roman_map.get(ch, 0) / ROMAN_MAP.get(ch, 0)
RomanMapGet(ch) ==
    IF ch = "i" THEN 1
    ELSE IF ch = "v" THEN 5
    ELSE IF ch = "x" THEN 10
    ELSE IF ch = "l" THEN 50
    ELSE IF ch = "c" THEN 100
    ELSE IF ch = "d" THEN 500
    ELSE IF ch = "m" THEN 1000
    ELSE 0

\* "for ch in reversed(s)" from position k down
RECURSIVE Accumulate(_, _, _, _)
Accumulate(s, k, total, prev) ==
    IF k = 0 THEN total
    ELSE LET val == RomanMapGet(s[k])
         IN  Accumulate(s, k - 1,
                        IF val < prev THEN total - val ELSE total + val, val)
\* EnterpriseMiner._roman_to_int
RomanToInt(s) == Accumulate(s, Len(s), 0, 0)

\* the profiler's is_valid_roman and roman_to_int
IsValidRoman(s) == RomanValidatorMatches(Strip(s, SpaceChars))
ProfilerRomanToInt(s) == RomanToInt(Strip(Lower(s), SpaceChars))

\* the tokens: every numeral of the grammar, and every short sequence of
\* letters of numerals (lower and upper case, and the dotless i)
RomanLetters == {"i", "v", "x", "l", "c", "d", "m"}
TokenLetters == RomanLetters \cup {"I", DotlessI}
RomanTokens ==
    {m \o c \o x \o i : m \in ThousandsWords, c \in HundredsWords,
                        x \in TensWords, i \in UnitsWords}
    \cup SeqsUpTo(TokenLetters, MaxTokenLen)

RomInit ==
    /\ romPc = "ready"
    /\ romToken \in RomanTokens
    /\ romValue = <<>>
    /\ IdleExcept("rom")

\* mine_page_references on a token that is not a number: the token captured
\* by page_pattern is lowered, checked against the grammar and converted
MinerRoman ==
    /\ romPc = "ready"
    /\ romToken # <<>>
    /\ LET token == Lower(romToken)
       IN  IF ~RomanValidatorMatches(token)
           THEN romPc' = "miner_rejected" /\ romValue' = <<>>
           ELSE romPc' = "miner_converted" /\ romValue' = <<RomanToInt(token)>>
    /\ UNCHANGED romToken
    /\ Frame("rom")

\* EnterpriseProfiler.run on a token of a margin line: the line is lowered
\* and \b([ivxlcdm]{1,10})\b captures the token, which is checked and
\* converted
ProfilerRoman ==
    /\ romPc = "ready"
    /\ LET token == Lower(romToken)
       IN  /\ 1 <= Len(token) /\ Len(token) <= 10
           /\ AllIn(token, RomanLetters)
           /\ IF ~IsValidRoman(token)
              THEN romPc' = "profiler_rejected" /\ romValue' = <<>>
              ELSE romPc' = "profiler_converted"
                   /\ romValue' = <<ProfilerRomanToInt(token)>>
    /\ UNCHANGED romToken
    /\ Frame("rom")

RomNext == MinerRoman \/ ProfilerRoman
SpecRoman == RomInit /\ [][RomNext]_vars

---------------------------------------------------------------------------
(* core/miner.py: mine_page_references                                     *)

\* \w of the re module: letters (the dotless i is one), digits, underscore
IsWordChar(c) ==
    c \in LowerChars \cup UpperChars \cup DigitChars \cup {"_", DotlessI}
\* \b between the positions i - 1 and i of s
WordBoundaryAt(s, i) ==
    LET before == i > 1 /\ IsWordChar(s[i - 1])
        after  == i <= Len(s) /\ IsWordChar(s[i])
    IN  before # after

\* the end of the longest run of characters of chars from position i
RECURSIVE RunEnd(_, _, _)
RunEnd(s, i, chars) ==
    IF i <= Len(s) /\ s[i] \in chars THEN RunEnd(s, i + 1, chars) ELSE i

\* the characters that [ivxlcdm] matches under re.IGNORECASE
RomanClassChars ==
    {c \in LowerChars \cup UpperChars \cup {DotlessI} :
        \E letter \in {"i", "v", "x", "l", "c", "d", "m"} :
            MatchesIgnoreCase(c, letter)}

\* \s*([ivxlcdm]+|\d+)\b from position j: the captured token as <<first,
\* last>>, or <<>>.  The runs are greedy, and giving characters back never
\* helps: a shorter token ends before a word character.
MatchToken(s, j) ==
    LET k       == RunEnd(s, j, SpaceChars)
        romanTo == RunEnd(s, k, RomanClassChars)
        digitTo == RunEnd(s, k, DigitChars)
    IN  IF romanTo > k
        THEN (IF WordBoundaryAt(s, romanTo) THEN <<k, romanTo - 1>> ELSE <<>>)
        ELSE IF digitTo > k /\ WordBoundaryAt(s, digitTo)
        THEN <<k, digitTo - 1>>
        ELSE <<>>

\* page_pattern matched at position i: \b, then page or p or p. (in the
\* order the re module tries them), then the token
StartsAt(s, i, word) ==
    /\ i + Len(word) - 1 <= Len(s)
    /\ MatchesWordIgnoreCase(SubSeq(s, i, i + Len(word) - 1), word)
PagePatternAt(s, i) ==
    IF ~WordBoundaryAt(s, i) THEN <<>>
    ELSE LET viaPage == IF StartsAt(s, i, PageWord)
                        THEN MatchToken(s, i + 4) ELSE <<>>
             viaPDot == IF StartsAt(s, i, <<"p", ".">>)
                        THEN MatchToken(s, i + 2) ELSE <<>>
             viaP    == IF StartsAt(s, i, <<"p">>)
                        THEN MatchToken(s, i + 1) ELSE <<>>
         IN  IF viaPage # <<>> THEN viaPage
             ELSE IF viaPDot # <<>> THEN viaPDot
             ELSE viaP

\* page_pattern.finditer(sent_text): the captured tokens, left to right
RECURSIVE FindTokens(_, _)
FindTokens(s, i) ==
    IF i > Len(s) THEN <<>>
    ELSE LET hit == PagePatternAt(s, i)
         IN  IF hit = <<>> THEN FindTokens(s, i + 1)
             ELSE <<SubSeq(s, hit[1], hit[2])>> \o FindTokens(s, hit[2] + 1)

AmbiguousRomanChars == {"c", "d", "l", "m"}

\* the loop body for one captured token: <<>> for "continue", or the value
\* and the numbering type of the reference
MineToken(captured) ==
    LET token    == Lower(captured)
        is_roman == ~AllIn(token, DigitChars)
        val      == IF is_roman THEN RomanToInt(token) ELSE StrToInt(token)
    IN  IF is_roman /\ Len(token) = 1 /\ token[1] \in AmbiguousRomanChars
        THEN <<>>
        ELSE IF is_roman /\ ~RomanValidatorMatches(token) THEN <<>>
        ELSE IF val <= 0 THEN <<>>
        ELSE <<[val |-> val, num_type |-> IF is_roman THEN Roman ELSE Arabic]>>

\* the sentences: a token between what precedes it (a page prefix, with or
\* without a space, after a word character or not) and what follows it (the
\* end, punctuation, letters, a second reference)
MineLetters == {"i", "v", "x", "c", "I", DotlessI, "0", "1"}
MineFrames ==
    {<<<<"p","a","g","e"," ">>, <<>>>>,
     <<<<"P","a","g","e">>, <<".">>>>,
     <<<<"s","e","e"," ","p",".">>, <<>>>>,
     <<<<"p"," ">>, <<",">>>>,
     <<<<"a","p","a","g","e"," ">>, <<>>>>,
     <<<<"p","a","g","e"," ">>, <<"t","h">>>>,
     <<<<"p","a","g","e"," "," ">>, <<" ","p",".","2">>>>,
     <<<<"p","a","g","e",":">>, <<>>>>}
MineSentences ==
    {frame[1] \o token \o frame[2] :
        frame \in MineFrames, token \in SeqsUpTo(MineLetters, MaxTokenLen)}
SentenceBBox == <<0, 0, 10, 10>>
MatchBBox    == <<1, 1, 2, 2>>

MineInit ==
    /\ minePc = "ready"
    /\ mineSentence \in MineSentences
    /\ minePage \in {-1, 0, 1}
    /\ mineTokens = <<>>
    /\ mineRefs = <<>>
    /\ IdleExcept("mine")

\* assert page_num_0indexed >= 0
MineAssertFails ==
    /\ minePc = "ready"
    /\ minePage < 0
    /\ minePc' = "raised"
    /\ UNCHANGED <<mineSentence, minePage, mineTokens, mineRefs>>
    /\ Frame("mine")

\* the whole call; found says whether search_for finds the rectangle of the
\* match inside the sentence's box (else the sentence's box is the fallback)
MineCall ==
    /\ minePc = "ready"
    /\ minePage >= 0
    /\ \E found \in BOOLEAN :
          LET tokens == FindTokens(mineSentence, 1)
              kept   == SelectSeq([k \in 1..Len(tokens) |-> MineToken(tokens[k])],
                                  LAMBDA r : r # <<>>)
              bbox   == IF found THEN MatchBBox ELSE SentenceBBox
              refs   == [k \in 1..Len(kept) |->
                            [SemanticReference(minePage + 1,
                                 GeneratePageUrn(kept[k][1].val,
                                                 kept[k][1].num_type), bbox)
                               EXCEPT !.context_sentence =
                                          Strip(mineSentence, SpaceChars)]]
          IN  /\ mineTokens' = tokens
              /\ IF \E k \in 1..Len(refs) :
                       SemanticReferenceRaises(refs[k].source_page,
                           refs[k].short_anchor, refs[k].context_sentence,
                           refs[k].source_bbox)
                 THEN minePc' = "raised" /\ mineRefs' = <<>>
                 ELSE minePc' = "returned" /\ mineRefs' = refs
    /\ UNCHANGED <<mineSentence, minePage>>
    /\ Frame("mine")

MineNext == MineAssertFails \/ MineCall
SpecMiner == MineInit /\ [][MineNext]_vars

---------------------------------------------------------------------------
(* main.py: run_batch and process_document, with the document handles     *)
(* that the phases open (profiler.py, indexer.py, main.py, annotator.py)  *)
(* and the rulebook and output files they leave behind                    *)

MaxBatch == 2

\* what the content of a queued document makes the phases do: "no_text" has
\* no text line (profiler.py 629-630), "no_page_map" defeats the topology
\* induction (profiler.py 892-893), and a "..._fault" document raises inside
\* the try block of the phase it names
DocKinds ==
    {"ok", "no_text", "no_page_map", "ast_fault", "miner_fault", "linker_fault", "annotator_fault"}

\* a file of input/, and whether config/ holds <base_name>_rulebook.yaml
BatchDocs == [name : 1..MaxBatch, kind : DocKinds, cached : BOOLEAN]

\* glob.glob: the files of input/, in no particular order
GlobResults ==
    {g \in SeqsUpTo(BatchDocs, MaxBatch) :
        \A i, j \in 1..Len(g) : i # j => g[i].name # g[j].name}

\* app_settings.yaml: without a pipeline_tuning key, or with an empty one
\* (yaml.safe_load gives {'pipeline_tuning': None})
TuningSettings == {"absent", "null"}

RECURSIVE InsertByName(_, _)
InsertByName(sorted, doc) ==
    IF sorted = <<>> THEN <<doc>>
    ELSE IF doc.name < Head(sorted).name THEN <<doc>> \o sorted
    ELSE <<Head(sorted)>> \o InsertByName(Tail(sorted), doc)

RECURSIVE Sorted(_)
Sorted(paths) ==
    IF paths = <<>> THEN <<>>
    ELSE InsertByName(Sorted(SubSeq(paths, 1, Len(paths) - 1)), paths[Len(paths)])

\* the document process_document is working on
PipeDoc == pipeQueue[pipeIdx]

Logged(event) == Append(pipeLog, <<PipeDoc.name, event>>)

Opened(phase) == pipeHandles \cup {<<PipeDoc.name, phase>>}

Closed(phase) == pipeHandles \ {<<PipeDoc.name, phase>>}

PipeInit ==
    /\ pipePc = "run_batch"
    /\ pipeGlob \in GlobResults
    /\ pipeReprofile \in BOOLEAN
    /\ pipeTuning \in TuningSettings
    /\ pipeQueue = <<>> /\ pipeIdx = 0
    /\ pipeSuccess = 0 /\ pipeFailure = 0
    /\ pipeRulebook =
          [n \in 1..MaxBatch |->
              IF \E i \in 1..Len(pipeGlob) : pipeGlob[i].name = n /\ pipeGlob[i].cached
              THEN "cached" ELSE "absent"]
    /\ pipeHandles = {} /\ pipeOutput = {} /\ pipeLog = <<>>
    /\ IdleExcept("pipe")

\* main.py 152-161
RunBatch ==
    /\ pipePc = "run_batch"
    /\ pipeQueue' = Sorted(pipeGlob)
    /\ pipePc' = IF pipeQueue' = <<>> THEN "returned" ELSE "loop"
    /\ pipeSuccess' = 0 /\ pipeFailure' = 0
    /\ UNCHANGED <<pipeGlob, pipeReprofile, pipeTuning, pipeIdx, pipeRulebook,
                   pipeHandles, pipeOutput, pipeLog>>
    /\ Frame("pipe")

\* main.py 163-166 and 172: the head of the for loop, and the call
BatchLoop ==
    /\ pipePc = "loop"
    /\ IF pipeIdx < Len(pipeQueue)
       THEN /\ pipeIdx' = pipeIdx + 1
            /\ pipeLog' = Append(pipeLog, <<pipeQueue[pipeIdx + 1].name, "attempt">>)
            /\ pipePc' = "phase0"
       ELSE /\ pipePc' = "batch_complete"
            /\ UNCHANGED <<pipeIdx, pipeLog>>
    /\ UNCHANGED <<pipeGlob, pipeReprofile, pipeTuning, pipeQueue, pipeSuccess,
                   pipeFailure, pipeRulebook, pipeHandles, pipeOutput>>
    /\ Frame("pipe")

\* a phase 0 that profiles whether or not a rulebook exists
Phase0AlwaysProfiles ==
    /\ pipePc = "phase0"
    /\ pipePc' = "profiler_init"
    /\ UNCHANGED <<pipeGlob, pipeReprofile, pipeTuning, pipeQueue, pipeIdx, pipeSuccess,
                   pipeFailure, pipeRulebook, pipeHandles, pipeOutput, pipeLog>>
    /\ Frame("pipe")

\* main.py 100-106
Phase0 ==
    /\ pipePc = "phase0"
    /\ IF pipeRulebook[PipeDoc.name] # "absent" /\ ~pipeReprofile
       THEN /\ pipePc' = "indexer"
            /\ pipeLog' = Logged("phase0_cached")
            /\ UNCHANGED pipeRulebook
       ELSE /\ IF pipeReprofile /\ pipeRulebook[PipeDoc.name] # "absent"
               THEN /\ pipeRulebook' = [pipeRulebook EXCEPT ![PipeDoc.name] = "absent"]
                    /\ pipeLog' = Logged("rulebook_removed")
               ELSE UNCHANGED <<pipeRulebook, pipeLog>>
            /\ pipePc' = "profiler_init"
    /\ UNCHANGED <<pipeGlob, pipeReprofile, pipeTuning, pipeQueue, pipeIdx,
                   pipeSuccess, pipeFailure, pipeHandles, pipeOutput>>
    /\ Frame("pipe")

\* profiler.py 45-57: the constructor opens the document (47) and then reads
\* the tuning (55-56) and samples pages (57) outside any try block
ProfilerInit ==
    /\ pipePc = "profiler_init"
    /\ pipeHandles' = Opened("inducer")
    /\ pipeLog' = Logged("inducer")
    /\ pipePc' = IF pipeTuning = "null" THEN "except" ELSE "profiler_run"
    /\ UNCHANGED <<pipeGlob, pipeReprofile, pipeTuning, pipeQueue, pipeIdx,
                   pipeSuccess, pipeFailure, pipeRulebook, pipeOutput>>
    /\ Frame("pipe")

\* profiler.py 563-968: run, with its finally
ProfilerRun ==
    /\ pipePc = "profiler_run"
    /\ pipePc' = IF PipeDoc.kind \in {"no_text", "no_page_map"}
                 THEN "except" ELSE "write_rulebook"
    /\ pipeHandles' = Closed("inducer")
    /\ UNCHANGED <<pipeGlob, pipeReprofile, pipeTuning, pipeQueue, pipeIdx,
                   pipeSuccess, pipeFailure, pipeRulebook, pipeOutput, pipeLog>>
    /\ Frame("pipe")

\* profiler.py 973-974
WriteRulebook ==
    /\ pipePc = "write_rulebook"
    /\ pipeRulebook' = [pipeRulebook EXCEPT ![PipeDoc.name] = "induced"]
    /\ pipeLog' = Logged("rulebook_written")
    /\ pipePc' = "indexer"
    /\ UNCHANGED <<pipeGlob, pipeReprofile, pipeTuning, pipeQueue, pipeIdx,
                   pipeSuccess, pipeFailure, pipeHandles, pipeOutput>>
    /\ Frame("pipe")

\* main.py 111-112, indexer.py 19-26 and 58-62: the rulebook is read, the
\* document opened
BuildAstOpen ==
    /\ pipePc = "indexer"
    /\ pipeHandles' = Opened("ast_builder")
    /\ pipeLog' = Logged("ast_builder")
    /\ pipePc' = "build_ast"
    /\ UNCHANGED <<pipeGlob, pipeReprofile, pipeTuning, pipeQueue, pipeIdx,
                   pipeSuccess, pipeFailure, pipeRulebook, pipeOutput>>
    /\ Frame("pipe")

\* indexer.py 64-174
BuildAst ==
    /\ pipePc = "build_ast"
    /\ pipePc' = IF PipeDoc.kind = "ast_fault" THEN "except" ELSE "miner"
    /\ pipeHandles' = Closed("ast_builder")
    /\ UNCHANGED <<pipeGlob, pipeReprofile, pipeTuning, pipeQueue, pipeIdx,
                   pipeSuccess, pipeFailure, pipeRulebook, pipeOutput, pipeLog>>
    /\ Frame("pipe")

\* main.py 116-119
MinerOpen ==
    /\ pipePc = "miner"
    /\ pipeHandles' = Opened("miner")
    /\ pipeLog' = Logged("miner")
    /\ pipePc' = "miner_loop"
    /\ UNCHANGED <<pipeGlob, pipeReprofile, pipeTuning, pipeQueue, pipeIdx,
                   pipeSuccess, pipeFailure, pipeRulebook, pipeOutput>>
    /\ Frame("pipe")

\* main.py 120-135
MinerLoop ==
    /\ pipePc = "miner_loop"
    /\ pipePc' = IF PipeDoc.kind = "miner_fault" THEN "except" ELSE "resolver"
    /\ pipeHandles' = Closed("miner")
    /\ UNCHANGED <<pipeGlob, pipeReprofile, pipeTuning, pipeQueue, pipeIdx,
                   pipeSuccess, pipeFailure, pipeRulebook, pipeOutput, pipeLog>>
    /\ Frame("pipe")

\* main.py 138-139, resolver.py 16-24: the rulebook is read
Resolve ==
    /\ pipePc = "resolver"
    /\ pipeLog' = Logged("linker")
    /\ pipePc' = IF PipeDoc.kind = "linker_fault" THEN "except" ELSE "annotator"
    /\ UNCHANGED <<pipeGlob, pipeReprofile, pipeTuning, pipeQueue, pipeIdx,
                   pipeSuccess, pipeFailure, pipeRulebook, pipeHandles, pipeOutput>>
    /\ Frame("pipe")

\* main.py 142-144 and annotator.py 30-35: the tuning is read before the
\* Annotator exists
AnnotatorOpen ==
    /\ pipePc = "annotator"
    /\ IF pipeTuning = "null"
       THEN /\ pipePc' = "except"
            /\ UNCHANGED <<pipeHandles, pipeLog>>
       ELSE /\ pipeHandles' = Opened("annotator")
            /\ pipeLog' = Logged("annotator")
            /\ pipePc' = "annotate"
    /\ UNCHANGED <<pipeGlob, pipeReprofile, pipeTuning, pipeQueue, pipeIdx,
                   pipeSuccess, pipeFailure, pipeRulebook, pipeOutput>>
    /\ Frame("pipe")

\* annotator.py 37-92
Annotate ==
    /\ pipePc = "annotate"
    /\ IF PipeDoc.kind = "annotator_fault"
       THEN /\ pipePc' = "except"
            /\ UNCHANGED <<pipeOutput, pipeLog>>
       ELSE /\ pipeOutput' = pipeOutput \cup {PipeDoc.name}
            /\ pipeLog' = Logged("output_written")
            /\ pipePc' = "success"
    /\ pipeHandles' = Closed("annotator")
    /\ UNCHANGED <<pipeGlob, pipeReprofile, pipeTuning, pipeQueue, pipeIdx,
                   pipeSuccess, pipeFailure, pipeRulebook>>
    /\ Frame("pipe")

\* main.py 146 and 167
ProcessSuccess ==
    /\ pipePc = "success"
    /\ pipeSuccess' = pipeSuccess + 1
    /\ pipeLog' = Logged("success")
    /\ pipePc' = "loop"
    /\ UNCHANGED <<pipeGlob, pipeReprofile, pipeTuning, pipeQueue, pipeIdx,
                   pipeFailure, pipeRulebook, pipeHandles, pipeOutput>>
    /\ Frame("pipe")

\* a handler that lets the exception out of the loop
ProcessExceptAborts ==
    /\ pipePc = "except"
    /\ pipeFailure' = pipeFailure + 1
    /\ pipeLog' = Logged("fault")
    /\ pipePc' = "batch_complete"
    /\ UNCHANGED <<pipeGlob, pipeReprofile, pipeTuning, pipeQueue, pipeIdx,
                   pipeSuccess, pipeRulebook, pipeHandles, pipeOutput>>
    /\ Frame("pipe")

\* main.py 148-150 and 168-170
ProcessExcept ==
    /\ pipePc = "except"
    /\ pipeFailure' = pipeFailure + 1
    /\ pipeLog' = Logged("fault")
    /\ pipePc' = "loop"
    /\ UNCHANGED <<pipeGlob, pipeReprofile, pipeTuning, pipeQueue, pipeIdx,
                   pipeSuccess, pipeRulebook, pipeHandles, pipeOutput>>
    /\ Frame("pipe")

PipeNext ==
    \/ RunBatch \/ BatchLoop \/ Phase0 \/ ProfilerInit \/ ProfilerRun
    \/ WriteRulebook \/ BuildAstOpen \/ BuildAst \/ MinerOpen \/ MinerLoop
    \/ Resolve \/ AnnotatorOpen \/ Annotate \/ ProcessSuccess \/ ProcessExcept

SpecBatch == PipeInit /\ [][PipeNext]_vars

---------------------------------------------------------------------------
(* core/vocabulary_registry.py: the registry, and core/profiler.py:        *)
(* _extract_structural_vocabulary, which consults it                       *)

MaxRegOps == 2

KnownStructuralMarkers ==
    {<<"C","h","a","p","t","e","r">>,
     <<"T","h","e","m","e">>,
     <<"U","n","i","t">>,
     <<"P","a","r","t">>,
     <<"L","e","s","s","o","n">>,
     <<"M","o","d","u","l","e">>,
     <<"S","e","c","t","i","o","n">>,
     <<"V","o","l","u","m","e">>,
     <<"T","o","p","i","c">>,
     <<"B","o","o","k">>,
     <<"R","e","a","d","i","n","g">>,
     <<"E","n","t","r","y">>,
     <<"C","a","s","e">>,
     <<"S","t","o","r","y">>,
     <<"W","e","e","k">>,
     <<"S","e","s","s","i","o","n">>,
     <<"B","l","o","c","k">>,
     <<"S","t","r","a","n","d">>,
     <<"A","r","t","i","c","l","e">>,
     <<"C","l","a","u","s","e">>,
     <<"R","u","l","e">>,
     <<"A","c","t">>,
     <<"S","c","h","e","d","u","l","e">>,
     <<"P","r","o","t","o","c","o","l">>,
     <<"T","r","i","a","l">>,
     <<"E","x","p","e","r","i","m","e","n","t">>,
     <<"C","a","n","t","o">>,
     <<"T","a","l","e">>,
     <<"V","e","r","s","e">>,
     <<"E","p","o","c","h">>,
     <<"E","r","a">>,
     <<"P","e","r","i","o","d">>,
     <<"P","a","a","t","h">>}

ChapterLabel == <<"C","h","a","p","t","e","r">>
UnitLabel    == <<"U","n","i","t">>
EraLabel     == <<"E","r","a">>

\* the documents of the registry; confidences are in hundredths
RegDocs == {"a", "b"}

\* the data of a write: a response in the schema of the prompt has no
\* confidence (profiler.py 190-218 and ingest_vocabulary.py 152), the
\* Inducer adds 0.95 to an oracle response (profiler.py 475)
RegData ==
    [primary_marker : {UnitLabel, EraLabel, <<>>}, confidence : {<<>>, <<95>>}]

\* validation_samples: the first lines of the clusters of large type
SampleLists ==
    {<<>>, <<<<"u","n","i","t"," ","1">>>>, <<<<"I","n","t","r","o">>, <<"u","n","i","t"," ","1">>>>, <<<<"1"," ","E","r","a">>>>}

ResolutionModes == {"full", "no-api", "offline", "manual-only", "override"}

\* what the oracle call of profiler.py 443-484 comes to: an exception, a
\* response rejected at every attempt, or an accepted response
OracleOutcomes == {"fails", "rejected", "accepted"}

UpperChar(c) ==
    IF c \in LowerChars
    THEN UpperPairs[CHOOSE i \in 1..26 : LowerPairs[i] = c]
    ELSE c

\* str.title() of one word of letters
Title(w) == [i \in 1..Len(w) |-> IF i = 1 THEN UpperChar(w[i]) ELSE LowerChar(w[i])]

\* sub in s
Contains(s, sub) ==
    \E i \in 1..(Len(s) - Len(sub) + 1) : SubSeq(s, i, i + Len(sub) - 1) = sub

\* profiler.py 406-415
ValidatorFn(entry, samples) ==
    LET marker == entry.primary_marker
    IN  IF marker = <<>> THEN FALSE
        ELSE \E k \in 1..Len(samples) : Contains(Lower(samples[k]), Lower(marker))

\* vocabulary_registry.py 142-148
StoreEntry(data, doc, source, now) ==
    [doc_name |-> doc, primary_marker |-> data.primary_marker,
     confidence |-> data.confidence, source |-> <<source>>,
     timestamp |-> now, invalidated |-> FALSE]

\* sorted(..., key=timestamp, reverse=True): stable, so that of two entries
\* with one timestamp the one stored first stays first
RECURSIVE InsertNewestFirst(_, _)
InsertNewestFirst(sorted, entry) ==
    IF sorted = <<>> THEN <<entry>>
    ELSE IF entry.timestamp > Head(sorted).timestamp THEN <<entry>> \o sorted
    ELSE <<Head(sorted)>> \o InsertNewestFirst(Tail(sorted), entry)

RECURSIVE NewestFirst(_)
NewestFirst(entries) ==
    IF entries = <<>> THEN <<>>
    ELSE InsertNewestFirst(NewestFirst(SubSeq(entries, 1, Len(entries) - 1)),
                           entries[Len(entries)])

\* vocabulary_registry.py 76-77
EntriesOf(store, doc) == NewestFirst(SelectSeq(store, LAMBDA d : d.doc_name = doc))

\* vocabulary_registry.py 81-97: the first entry that is not invalidated and
\* passes the validator
RECURSIVE FirstAccepted(_, _)
FirstAccepted(entries, samples) ==
    IF entries = <<>> THEN <<>>
    ELSE IF ~Head(entries).invalidated /\ ValidatorFn(Head(entries), samples)
    THEN <<Head(entries)>>
    ELSE FirstAccepted(Tail(entries), samples)

\* re.match(r'^\s*([a-zA-Z]+)', s), titled
FirstWord(s) ==
    LET k == RunEnd(s, 1, SpaceChars)
        e == RunEnd(s, k, LowerChars \cup UpperChars)
    IN  IF e > k THEN <<Title(SubSeq(s, k, e - 1))>> ELSE <<>>

\* Counter(first_words).most_common(1): the most frequent word, the one
\* met first among equals
MostCommon(words) ==
    LET count(w) == Cardinality({k \in 1..Len(words) : words[k] = w})
        best == CHOOSE k \in 1..Len(words) :
                    /\ \A j \in 1..Len(words) : count(words[j]) <= count(words[k])
                    /\ \A j \in 1..(k - 1) : count(words[j]) < count(words[k])
    IN  words[best]

\* vocabulary_registry.py 99-130
FallbackEntry(doc, samples, now) ==
    LET first_words == Flatten([k \in 1..Len(samples) |-> FirstWord(samples[k])])
        statistical ==
            /\ first_words # <<>>
            /\ Title(MostCommon(first_words)) \in KnownStructuralMarkers
    IN  IF statistical
        THEN [doc_name |-> doc, primary_marker |-> MostCommon(first_words),
              confidence |-> <<50>>, source |-> <<"statistical_fallback">>,
              timestamp |-> now, invalidated |-> FALSE]
        ELSE [doc_name |-> doc, primary_marker |-> ChapterLabel,
              confidence |-> <<10>>, source |-> <<"default_fallback">>,
              timestamp |-> now, invalidated |-> FALSE]

\* a lookup that asks the oracle store first
RegistryGetApiFirst(manual, api, doc, samples, now) ==
    LET fromManual == FirstAccepted(EntriesOf(manual, doc), samples)
        fromApi    == FirstAccepted(EntriesOf(api, doc), samples)
    IN  IF fromApi # <<>> THEN fromApi[1]
        ELSE IF fromManual # <<>> THEN fromManual[1]
        ELSE FallbackEntry(doc, samples, now)

\* vocabulary_registry.py 58-140
RegistryGet(manual, api, doc, samples, now) ==
    LET fromManual == FirstAccepted(EntriesOf(manual, doc), samples)
        fromApi    == FirstAccepted(EntriesOf(api, doc), samples)
    IN  IF fromManual # <<>> THEN fromManual[1]
        ELSE IF fromApi # <<>> THEN fromApi[1]
        ELSE FallbackEntry(doc, samples, now)

\* vocabulary_registry.py 162-172: the last entry of the store that is of
\* the document and not invalidated
Invalidated(store, doc) ==
    LET matches == {i \in 1..Len(store) : store[i].doc_name = doc /\ ~store[i].invalidated}
    IN  IF matches = {} THEN store
        ELSE LET idx == CHOOSE i \in matches : \A j \in matches : j <= i
             IN  [store EXCEPT ![idx].invalidated = TRUE]

VocInit ==
    /\ vocPc = "ops"
    /\ vocManual = <<>> /\ vocApi = <<>>
    /\ vocClock = 1 /\ vocOps = 0
    /\ vocDoc = "" /\ vocSamples = <<>> /\ vocMode = "" /\ vocResult = <<>>
    /\ IdleExcept("voc")

\* the calls write entries of document "a" with any data, and of document
\* "b" with one; datetime.now() may not have advanced since the last call
WriteInputs ==
    {<<doc, data>> \in RegDocs \X RegData :
        doc = "b" => data = [primary_marker |-> UnitLabel, confidence |-> <<95>>]}

\* vocabulary_registry.py 146-148
WriteManualResult ==
    /\ vocPc = "ops" /\ vocOps < MaxRegOps
    /\ \E input \in WriteInputs, now \in {vocClock, vocClock + 1} :
          /\ vocManual' = Append(vocManual, StoreEntry(input[2], input[1], "manual_ingest", now))
          /\ vocClock' = now
    /\ vocOps' = vocOps + 1
    /\ UNCHANGED <<vocPc, vocApi, vocDoc, vocSamples, vocMode, vocResult>>
    /\ Frame("voc")

\* vocabulary_registry.py 142-144
WriteApiResult ==
    /\ vocPc = "ops" /\ vocOps < MaxRegOps
    /\ \E input \in WriteInputs, now \in {vocClock, vocClock + 1} :
          /\ vocApi' = Append(vocApi, StoreEntry(input[2], input[1], "gemini_api", now))
          /\ vocClock' = now
    /\ vocOps' = vocOps + 1
    /\ UNCHANGED <<vocPc, vocManual, vocDoc, vocSamples, vocMode, vocResult>>
    /\ Frame("voc")

\* vocabulary_registry.py 162-172
RegistryClear ==
    /\ vocPc = "ops" /\ vocOps < MaxRegOps
    /\ \E doc \in RegDocs, source \in {"manual_ingest", "gemini_api"} :
          IF source = "manual_ingest"
          THEN /\ vocManual' = Invalidated(vocManual, doc)
               /\ UNCHANGED vocApi
          ELSE /\ vocApi' = Invalidated(vocApi, doc)
               /\ UNCHANGED vocManual
    /\ vocOps' = vocOps + 1
    /\ UNCHANGED <<vocPc, vocClock, vocDoc, vocSamples, vocMode, vocResult>>
    /\ Frame("voc")

\* vocabulary_registry.py 58-140, called on its own
RegistryGetCall ==
    /\ vocPc = "ops"
    /\ \E doc \in RegDocs, samples \in SampleLists :
          /\ vocDoc' = doc
          /\ vocSamples' = samples
          /\ vocResult' = <<RegistryGet(vocManual, vocApi, doc, samples, vocClock)>>
    /\ vocPc' = "get_returned"
    /\ UNCHANGED <<vocManual, vocApi, vocClock, vocOps, vocMode>>
    /\ Frame("voc")

\* profiler.py 221-561: the outcome of _extract_structural_vocabulary.  The
\* auto-ingest of 236-272 changes nothing: the 'import json' of line 470
\* makes json a local name of the whole function, so json.load at 242
\* raises UnboundLocalError, which 271 catches.  Logging the result
\* subscripts hit['confidence'] (423, 437-438).
ExtractOutcome(mode, vocab_override, oracle, hit) ==
    IF mode = "override"
    THEN [pc |-> "extract_returned", api |-> <<>>,
          result |-> <<[primary_marker |-> IF vocab_override # <<>> THEN vocab_override
                                           ELSE ChapterLabel,
                        source |-> <<"cli_override">>, confidence |-> <<100>>]>>]
    ELSE IF mode = "manual-only" /\ hit.source # <<"manual_ingest">>
    THEN [pc |-> "extract_raised", api |-> <<>>, result |-> <<>>]
    ELSE IF hit.source \in {<<"manual_ingest">>, <<"gemini_api">>}
    THEN (IF hit.confidence = <<>>
          THEN [pc |-> "extract_raised", api |-> <<>>, result |-> <<>>]
          ELSE [pc |-> "extract_returned", api |-> <<>>,
                result |-> <<[primary_marker |-> hit.primary_marker,
                              source |-> hit.source, confidence |-> hit.confidence]>>])
    ELSE IF mode \notin {"no-api", "offline"} /\ oracle = "accepted"
    THEN [pc |-> "extract_returned",
          api |-> <<[primary_marker |-> UnitLabel, confidence |-> <<95>>]>>,
          result |-> <<[primary_marker |-> UnitLabel, source |-> <<>>,
                        confidence |-> <<95>>]>>]
    ELSE [pc |-> "extract_returned", api |-> <<>>,
          result |-> <<[primary_marker |-> hit.primary_marker,
                        source |-> hit.source, confidence |-> hit.confidence]>>]

\* profiler.py 221-561
ExtractStructuralVocabulary ==
    /\ vocPc = "ops"
    /\ \E doc \in RegDocs, samples \in SampleLists, mode \in ResolutionModes,
          vocab_override \in {<<>>, EraLabel}, oracle \in OracleOutcomes :
          /\ mode # "override" => vocab_override = <<>>
          /\ mode # "full" => oracle = "fails"
          /\ LET hit == RegistryGet(vocManual, vocApi, doc, samples, vocClock)
                 out == ExtractOutcome(mode, vocab_override, oracle, hit)
             IN  /\ vocPc' = out.pc
                 /\ vocResult' = out.result
                 /\ vocApi' = IF out.api = <<>> THEN vocApi
                              ELSE Append(vocApi, StoreEntry(out.api[1], doc, "gemini_api", vocClock))
          /\ vocDoc' = doc
          /\ vocSamples' = samples
          /\ vocMode' = mode
    /\ UNCHANGED <<vocManual, vocClock, vocOps>>
    /\ Frame("voc")

VocNext ==
    \/ WriteManualResult \/ WriteApiResult \/ RegistryClear
    \/ RegistryGetCall \/ ExtractStructuralVocabulary

SpecVocabulary == VocInit /\ [][VocNext]_vars

---------------------------------------------------------------------------
(* core/profiler.py: _validate_and_correct_api_response                    *)

MaxTemplates == 2

\* the roles that make a template a chapter opener (profiler.py 158)
ChapterRoles ==
    {<<"c","h","a","p","t","e","r","_","m","a","r","k","e","r">>,
     <<"c","h","a","p","t","e","r","_","n","u","m","b","e","r">>,
     <<"c","h","a","p","t","e","r","_","t","i","t","l","e">>}

UnknownRole == <<"u","n","k","n","o","w","n">>

\* the 'role' values of the elements of a response: absent, a body role, a
\* chapter role, and a role that contains one
ResponseRoles ==
    {<<>>, <<"b","o","d","y","_","t","e","x","t">>, <<"c","h","a","p","t","e","r","_","t","i","t","l","e">>, <<"s","u","b","_","c","h","a","p","t","e","r","_","t","i","t","l","e">>}

\* the 'elements' value of a template: absent or empty, or a list
ElementLists ==
    {<<>>} \cup {<<[role |-> r]>> : r \in ResponseRoles}
           \cup {<<[role |-> <<"b","o","d","y","_","t","e","x","t">>], [role |-> <<"c","h","a","p","t","e","r","_","t","i","t","l","e">>]>>}

\* a template of a response; is_chapter_opener is a JSON value: true, false,
\* or "other" for anything that is not a bool (absent, null, a string)
ResponseTemplates ==
    [is_chapter_opener : {"true", "false", "other"}, elements : ElementLists]

\* raw_response: <<>> is a response that is not a JSON object or is empty,
\* <<templates>> an object with that 'layout_templates' list (the empty list
\* also stands for an absent or non-list value)
OracleResponses ==
    {<<>>} \cup {<<templates>> : templates \in SeqsUpTo(ResponseTemplates, MaxTemplates)}

\* profiler.py 130-137, the role
CorrectedElement(el) ==
    [role |-> IF el.role = <<>> THEN UnknownRole ELSE el.role]

\* profiler.py 119-139: templates without elements are dropped, the others
\* get a bool is_chapter_opener
RECURSIVE ValidTemplates(_)
ValidTemplates(templates) ==
    IF templates = <<>> THEN <<>>
    ELSE LET tmpl == Head(templates)
         IN  IF tmpl.elements = <<>> THEN ValidTemplates(Tail(templates))
             ELSE <<[is_chapter_opener |-> tmpl.is_chapter_opener = "true",
                     elements |-> [k \in 1..Len(tmpl.elements) |->
                                       CorrectedElement(tmpl.elements[k])]]>>
                  \o ValidTemplates(Tail(templates))

\* profiler.py 158: any(r in el['role'] for el in t['elements'] for r in [...])
HasChapterRole(tmpl) ==
    \E k \in 1..Len(tmpl.elements), r \in ChapterRoles : Contains(tmpl.elements[k].role, r)

\* profiler.py 153
OpenerCount(templates) ==
    Cardinality({k \in 1..Len(templates) : templates[k].is_chapter_opener})

\* profiler.py 152-169
SemanticConsistency(templates) ==
    IF OpenerCount(templates) = 0
    THEN LET inferable == {k \in 1..Len(templates) : HasChapterRole(templates[k])}
         IN  IF inferable = {} THEN templates
             ELSE LET first == CHOOSE k \in inferable : \A j \in inferable : k <= j
                  IN  [templates EXCEPT ![first].is_chapter_opener = TRUE]
    ELSE IF OpenerCount(templates) > 1
    THEN LET first == CHOOSE k \in 1..Len(templates) :
                          /\ templates[k].is_chapter_opener
                          /\ \A j \in 1..(k - 1) : ~templates[j].is_chapter_opener
         IN  [k \in 1..Len(templates) |->
                 [templates[k] EXCEPT !.is_chapter_opener = (k = first)]]
    ELSE templates

\* profiler.py 93-171: <<>> for None, else the corrected layout_templates
ValidateAndCorrectApiResponse(raw_response) ==
    IF raw_response = <<>> THEN <<>>
    ELSE IF raw_response[1] = <<>> THEN <<>>
    ELSE LET valid_templates == ValidTemplates(raw_response[1])
         IN  IF valid_templates = <<>> THEN <<>>
             ELSE <<SemanticConsistency(valid_templates)>>

OraInit ==
    /\ oraPc = "start"
    /\ oraResponse \in OracleResponses
    /\ oraResult = <<>>
    /\ IdleExcept("ora")

OraValidate ==
    /\ oraPc = "start"
    /\ oraResult' = ValidateAndCorrectApiResponse(oraResponse)
    /\ oraPc' = IF oraResult' = <<>> THEN "rejected" ELSE "accepted"
    /\ UNCHANGED oraResponse
    /\ Frame("ora")

OraNext == OraValidate

SpecOracle == OraInit /\ [][OraNext]_vars

---------------------------------------------------------------------------
(* core/profiler.py: the hierarchy assembly of EnterpriseProfiler.run      *)
(* Font sizes are in hundredths of a point, avg_per_page in tenths; the    *)
(* arithmetic of a level is done in ten-thousandths, where 3 % of a size   *)
(* and the midpoint of two sizes are whole numbers.                        *)

MaxClusters == 5

MaxHeaderAvgPerPage == 35

\* the medians of the font clusters: one per grid slot, so all different
CenterList == <<1800, 1760, 1400, 1380, 1360, 2400, 1220, 1210>>

ClusterCenters == {CenterList[k] : k \in 1..MaxClusters}

\* clusters: at most one per center, with few or many lines per page
ClusterSets ==
    {cs \in SUBSET [center : ClusterCenters, avg_per_page : {10, 40}] :
        \A a, b \in cs : a.center = b.center => a = b}

BodySizes == {1000, 1100}

Larger(a, b) == IF a >= b THEN a ELSE b

Smaller(a, b) == IF a <= b THEN a ELSE b

\* round(x, 2) of x ten-thousandths, in hundredths (no x of the model ends
\* in 50, where the binary value of the float would decide)
Round2(x) == IF x % 100 >= 50 THEN (x \div 100) + 1 ELSE x \div 100

\* profiler.py 930-931: the centers of the heading clusters, largest first
RECURSIVE SortedDescending(_)
SortedDescending(centers) ==
    IF centers = {} THEN <<>>
    ELSE LET top == CHOOSE c \in centers : \A d \in centers : d <= c
         IN  <<top>> \o SortedDescending(centers \ {top})

Headers(clusters, body_size) ==
    SortedDescending({c.center : c \in {d \in clusters :
        /\ d.center * 10 > body_size * 11
        /\ d.avg_per_page <= MaxHeaderAvgPerPage}})

\* profiler.py 935-954: the level of headers[i]
HierarchyLevel(headers, i) ==
    LET c      == headers[i] * 100
        spread == Larger(2000, Smaller(headers[i] * 3, 8000))
        min0   == c - spread
        max0   == c + spread
        min1   == IF i > 1 THEN Larger(min0, (headers[i] + headers[i - 1]) * 50) ELSE min0
        max1   == IF i < Len(headers)
                  THEN Smaller(max0, (headers[i] + headers[i + 1]) * 50) ELSE max0
        min_v  == IF min1 >= max1 THEN c - 1000 ELSE min1
        max_v  == IF min1 >= max1 THEN c + 1000 ELSE max1
    IN  [level_rank |-> i, center |-> headers[i],
         min |-> Round2(min_v), max |-> Round2(max_v)]

\* profiler.py 933-954
Hierarchy(headers) == [i \in 1..Len(headers) |-> HierarchyLevel(headers, i)]

HierInit ==
    /\ hierPc = "start"
    /\ hierClusters \in ClusterSets
    /\ hierBody \in BodySizes
    /\ hierLevels = <<>>
    /\ IdleExcept("hier")

HierAssemble ==
    /\ hierPc = "start"
    /\ hierLevels' = Hierarchy(Headers(hierClusters, hierBody))
    /\ hierPc' = "assembled"
    /\ UNCHANGED <<hierClusters, hierBody>>
    /\ Frame("hier")

HierNext == HierAssemble

SpecHierarchy == HierInit /\ [][HierNext]_vars
---------------------------------------------------------------------------
(* core/profiler.py: the oracle call of _extract_structural_vocabulary     *)
(* (lines 441-561), entered after the registry lookup returned a fallback  *)
(* entry.  rtyCalls is the history of the calls of generate_content: the   *)
(* prompt sent and what became of the response.                            *)

\* Bound of the retry specification: the largest api_retry_attempts
MaxApiRetries == 2

\* the confidence 0.95 of an accepted response, in hundredths
ApiConfidence == 95

\* the modes that reach the oracle step with a fallback entry: override
\* returned at line 229, manual-only returned or raised at lines 421-427
OracleStepModes == {"full", "no-api", "offline"}

\* hit: the entry of registry.get when no stored entry applies
FallbackHits == {FallbackEntry("a", samples, 1) : samples \in SampleLists}

RtyInit ==
    /\ rtyPc = "gate"
    /\ rtyMode \in OracleStepModes
    /\ rtyKey \in BOOLEAN
    /\ rtyMaxRetries \in -1..MaxApiRetries
    /\ rtyHit \in FallbackHits
    /\ rtyAttempt = 0
    /\ rtyPrompt = "base"
    /\ rtyCalls = <<>>
    /\ rtyStore = <<>>
    /\ rtyPacket = FALSE
    /\ rtyResult = <<>>
    /\ IdleExcept("rty")

\* lines 442-459: the mode and the key decide whether the oracle is asked;
\* the imports, the page packet and the client may raise, which the except
\* clause of line 483 catches
ApiGate ==
    /\ rtyPc = "gate"
    /\ \E setup_raises \in BOOLEAN :
          rtyPc' = IF rtyMode \notin {"no-api", "offline"} /\ rtyKey
                      /\ ~setup_raises
                   THEN "loop" ELSE "packet"
    /\ UNCHANGED <<rtyMode, rtyKey, rtyMaxRetries, rtyHit, rtyAttempt,
                   rtyPrompt, rtyCalls, rtyStore, rtyPacket, rtyResult>>
    /\ Frame("rty")

\* one iteration of "for attempt in range(limit + 1)", lines 461-481: the
\* call, the JSON parse or the validation raises, or the response is
\* validated
OracleAttempt(limit) ==
    /\ rtyPc = "loop"
    /\ rtyAttempt <= limit
    /\ \E raises \in BOOLEAN, response \in OracleResponses :
          LET validated_result == ValidateAndCorrectApiResponse(response)
              call(outcome) == [prompt |-> rtyPrompt, outcome |-> outcome]
              accepted == [layout_templates |-> validated_result[1],
                           confidence |-> ApiConfidence]
          IN  IF raises
              THEN /\ rtyCalls' = Append(rtyCalls, call("raised"))
                   /\ rtyPc' = "packet"
                   /\ UNCHANGED <<rtyAttempt, rtyPrompt, rtyStore, rtyResult>>
              ELSE IF validated_result # <<>>
              THEN /\ rtyCalls' = Append(rtyCalls, call("accepted"))
                   /\ rtyStore' = Append(rtyStore, accepted)
                   /\ rtyResult' = <<accepted>>
                   /\ rtyPc' = "returned"
                   /\ UNCHANGED <<rtyAttempt, rtyPrompt>>
              ELSE /\ rtyCalls' = Append(rtyCalls, call("rejected"))
                   /\ rtyPrompt' = "amended"
                   /\ rtyAttempt' = rtyAttempt + 1
                   /\ UNCHANGED <<rtyPc, rtyStore, rtyResult>>
    /\ UNCHANGED <<rtyMode, rtyKey, rtyMaxRetries, rtyHit, rtyPacket>>
    /\ Frame("rty")

\* the loop with range(max_retries + 2)
OracleCallOneMore == OracleAttempt(rtyMaxRetries + 1)

\* line 461: for attempt in range(max_retries + 1)
OracleCall == OracleAttempt(rtyMaxRetries)

\* the range is exhausted: the loop ends without a result
RetriesExhausted ==
    /\ rtyPc = "loop"
    /\ rtyAttempt > rtyMaxRetries
    /\ rtyPc' = "packet"
    /\ UNCHANGED <<rtyMode, rtyKey, rtyMaxRetries, rtyHit, rtyAttempt,
                   rtyPrompt, rtyCalls, rtyStore, rtyPacket, rtyResult>>
    /\ Frame("rty")

\* lines 487-547: the manual review packet, unless offline; its own except
\* clause catches whatever the writing raises
ManualPacket ==
    /\ rtyPc = "packet"
    /\ \E packet_raises \in BOOLEAN :
          rtyPacket' = (rtyMode # "offline" /\ ~packet_raises)
    /\ rtyPc' = "log"
    /\ UNCHANGED <<rtyMode, rtyKey, rtyMaxRetries, rtyHit, rtyAttempt,
                   rtyPrompt, rtyCalls, rtyStore, rtyResult>>
    /\ Frame("rty")

\* lines 549-561: return hit
ReturnHit ==
    /\ rtyPc = "log"
    /\ rtyResult' = <<rtyHit>>
    /\ rtyPc' = "returned"
    /\ UNCHANGED <<rtyMode, rtyKey, rtyMaxRetries, rtyHit, rtyAttempt,
                   rtyPrompt, rtyCalls, rtyStore, rtyPacket>>
    /\ Frame("rty")

RtyNext == ApiGate \/ OracleCall \/ RetriesExhausted \/ ManualPacket \/ ReturnHit

SpecOracleRetry == RtyInit /\ [][RtyNext]_vars
---------------------------------------------------------------------------
(* core/indexer.py: build_ast                                               *)
(* Font sizes are in hundredths of a point.  astOpened and astOrigin are    *)
(* history: the lines that opened a pending heading, and for every node of  *)
(* nodes the line that created it.                                          *)

\* Bound of the indexer specification: the lines of the document
MaxAstLines == 3

\* the lookahead buffer merges a line less than 20 points below the pending
\* heading whose size is above 13.5
MergeDistance == 20
MergeMinSize == 1350

ChapterWord == <<"C","h","a","p","t","e","r">>
MapWord == <<"M","a","p">>
SubtopicLabel == <<"s","u","b","t","o","p","i","c","_","1">>

\* the rulebooks: the pages 1..2 mapped, or only one of them; a first
\* hierarchy level (bold, around 18 pt) labelled by the primary marker and a
\* second (around 14 pt); one asset type (around 9 pt)
AstPageMaps ==
    {<<Segment(Arabic, 1, 1, 2)>>, <<Segment(Arabic, 1, 1, 1)>>,
     <<Segment(Arabic, 2, 1, 1)>>}
HierarchyLevels(label) ==
    <<[preferred_label |-> label, confidence |-> 95,
       min |-> 1700, max |-> 1900, is_bold |-> TRUE],
      [preferred_label |-> SubtopicLabel, confidence |-> 95,
       min |-> 1300, max |-> 1500, is_bold |-> FALSE]>>
AssetSignatures ==
    <<[asset_type |-> Lower(MapWord), min |-> 870, max |-> 930, is_bold |-> FALSE]>>
AstRulebooks ==
    [page_map : AstPageMaps,
     hierarchy : {HierarchyLevels(ChapterWord), HierarchyLevels(MapWord)},
     assets : {AssetSignatures}]

\* a line of a text block: the joined text of its spans, the size and the
\* weight of its primary span, and the bbox of its block
AstLine(text, size, is_bold, y0, y1) ==
    [text |-> text, size |-> size, is_bold |-> is_bold,
     bbox |-> <<0, y0, 100, y1>>]
AstLineKinds ==
    {AstLine(<<"I","n","t","r","o">>, 1800, TRUE, 100, 120),
     AstLine(<<"R","o","m","e">>, 1400, FALSE, 125, 145),
     AstLine(<<"R","o","m","e">>, 1400, FALSE, 300, 320),
     AstLine(<<"M","a","p"," ","1">>, 900, FALSE, 400, 410),
     AstLine(<<"M","a","p","s">>, 900, FALSE, 400, 410),
     AstLine(<<"b","o","d","y">>, 1000, FALSE, 200, 210),
     AstLine(<<"a","b"," ">>, 1800, TRUE, 100, 120),
     AstLine(<<"I","n","t","r","o">>, 1800, FALSE, 100, 120)}
\* the documents: lines on the pages 1 and 2, in reading order
AstDocs ==
    {doc \in SeqsUpTo([line : AstLineKinds, page : {1, 2}], MaxAstLines) :
        \A i \in 1..(Len(doc) - 1) : doc[i].page <= doc[i + 1].page}

\* _is_in_valid_segment
IsInValidSegment(page_map, physical_page) ==
    \E k \in 1..Len(page_map) :
        /\ page_map[k].physical_start <= physical_page
        /\ physical_page <= page_map[k].physical_end

\* _match_signature
MatchSignature(size, is_bold, signature) ==
    /\ signature.min <= size /\ size <= signature.max
    /\ ~(signature.is_bold /\ ~is_bold)

\* re.search(rf'\b{m_type}\b', chars, re.I)
SearchWord(chars, word) ==
    \E i \in 1..(Len(chars) - Len(word) + 1) :
        /\ WordBoundaryAt(chars, i)
        /\ WordBoundaryAt(chars, i + Len(word))
        /\ MatchesWordIgnoreCase(SubSeq(chars, i, i + Len(word) - 1), word)

\* counters: a defaultdict(int)
CounterGet(counters, key) == IF key \in DOMAIN counters THEN counters[key] ELSE 0
CounterIncrement(counters, key) ==
    [k \in DOMAIN counters \cup {key} |->
        IF k = key THEN CounterGet(counters, key) + 1 ELSE counters[k]]

\* the first asset, or the first level, whose signature matches
FirstMatch(signatures, size, is_bold, chars, needs_marker) ==
    LET hits == {k \in 1..Len(signatures) :
                    /\ MatchSignature(size, is_bold, signatures[k])
                    /\ needs_marker =>
                          SearchWord(chars, Lower(signatures[k].asset_type))}
    IN  IF hits = {} THEN 0 ELSE CHOOSE k \in hits : \A j \in hits : k <= j

\* the body of the loop over the lines (lines 80-165) for the line with index
\* i; st is nodes, counters, pending_node, pending_bbox and the history
IndexLine(st, rulebook, entry, i) ==
    LET line  == entry.line
        chars == Strip(line.text, SpaceChars)
        size  == line.size
        mergeable ==
            /\ st.pending_node # <<>>
            /\ Abs(line.bbox[2] - st.pending_bbox[4]) < MergeDistance
            /\ size > MergeMinSize
        flushed ==
            IF st.pending_node = <<>> THEN st
            ELSE [st EXCEPT !.nodes = Append(@, st.pending_node[1]),
                            !.origin = Append(@, st.pending_line),
                            !.pending_node = <<>>,
                            !.pending_bbox = <<>>,
                            !.pending_line = 0]
        asset == FirstMatch(rulebook.assets, size, line.is_bold, chars, TRUE)
        level == FirstMatch(rulebook.hierarchy, size, line.is_bold, chars, FALSE)
    IN  IF chars = <<>> \/ Len(chars) < 3 THEN st
        ELSE IF mergeable
        THEN [st EXCEPT !.pending_node =
                            <<[@[1] EXCEPT !.exact_name = @ \o <<":", " ">> \o chars]>>,
                        !.pending_bbox =
                            <<@[1], @[2],
                              IF @[3] >= line.bbox[3] THEN @[3] ELSE line.bbox[3],
                              line.bbox[4]>>]
        ELSE IF asset # 0
        THEN LET m_type == Lower(rulebook.assets[asset].asset_type)
                 key    == <<"asset", m_type>>
                 counters == CounterIncrement(flushed.counters, key)
             IN  [flushed EXCEPT
                    !.counters = counters,
                    !.nodes = Append(@, TargetNode(
                                  GenerateStructuralUrn(m_type, counters[key]),
                                  "asset", chars, entry.page, 100)),
                    !.origin = Append(@, i)]
        ELSE IF level # 0
        THEN LET hyp_obj   == rulebook.hierarchy[level]
                 namespace == Slugify(hyp_obj.preferred_label,
                                      <<"t","h","e","m","e">>)
                 key       == <<"hier", namespace>>
                 counters  == CounterIncrement(flushed.counters, key)
             IN  [flushed EXCEPT
                    !.counters = counters,
                    !.pending_node = <<TargetNode(
                                  GenerateStructuralUrn(namespace, counters[key]),
                                  "hierarchy", chars, entry.page,
                                  hyp_obj.confidence)>>,
                    !.pending_bbox = line.bbox,
                    !.pending_line = i,
                    !.opened = Append(@, i)]
        ELSE flushed

AstInit ==
    /\ astPc = "start"
    /\ astRulebook \in AstRulebooks
    /\ astDoc \in AstDocs
    /\ astI = 1
    /\ astState = [nodes |-> <<>>, origin |-> <<>>, counters |-> <<>>,
                   pending_node |-> <<>>, pending_bbox |-> <<>>,
                   pending_line |-> 0, opened |-> <<>>]
    /\ astDocOpen = FALSE
    /\ astReturned = <<>>
    /\ IdleExcept("ast")

\* line 58: doc = fitz.open(self.pdf_path)
AstOpen ==
    /\ astPc = "start"
    /\ astDocOpen' = TRUE
    /\ astPc' = "lines"
    /\ UNCHANGED <<astRulebook, astDoc, astI, astState, astReturned>>
    /\ Frame("ast")

\* lines 65-165: one line of the document; a line on an unmapped page is
\* skipped with its page (line 70)
AstIndexLine ==
    /\ astPc = "lines"
    /\ astI <= Len(astDoc)
    /\ astState' = IF IsInValidSegment(astRulebook.page_map, astDoc[astI].page)
                   THEN IndexLine(astState, astRulebook, astDoc[astI], astI)
                   ELSE astState
    /\ astI' = astI + 1
    /\ UNCHANGED <<astPc, astRulebook, astDoc, astDocOpen, astReturned>>
    /\ Frame("ast")

\* the end of build_ast without lines 170-171
AstFinishWithoutPending ==
    /\ astPc = "lines"
    /\ astI > Len(astDoc)
    /\ astDocOpen' = FALSE
    /\ astReturned' = astState.nodes
    /\ astPc' = "returned"
    /\ UNCHANGED <<astRulebook, astDoc, astI, astState>>
    /\ Frame("ast")

\* lines 167-174: doc.close(), the last pending heading, return nodes
AstFinish ==
    /\ astPc = "lines"
    /\ astI > Len(astDoc)
    /\ astDocOpen' = FALSE
    /\ astState' =
          IF astState.pending_node = <<>> THEN astState
          ELSE [astState EXCEPT !.nodes = Append(@, astState.pending_node[1]),
                                !.origin = Append(@, astState.pending_line)]
    /\ astReturned' = astState'.nodes
    /\ astPc' = "returned"
    /\ UNCHANGED <<astRulebook, astDoc, astI>>
    /\ Frame("ast")

AstNext == AstOpen \/ AstIndexLine \/ AstFinish

SpecIndexer == AstInit /\ [][AstNext]_vars

---------------------------------------------------------------------------
(* Properties of the canonical URN authority                               *)

\* the decimal numeral of v, stated by its positional value
RECURSIVE Pow10(_)
Pow10(k) == IF k = 0 THEN 1 ELSE 10 * Pow10(k - 1)
RECURSIVE PositionalSum(_, _)
PositionalSum(d, i) ==
    IF i > Len(d) THEN 0
    ELSE DigitValue(d[i]) * Pow10(Len(d) - i) + PositionalSum(d, i + 1)
IsNumeralOf(d, v) ==
    /\ Len(d) > 0
    /\ \A i \in 1..Len(d) : d[i] \in DigitChars
    /\ d[1] # "0"
    /\ PositionalSum(d, 1) = v

\* C5: for every positive integer v and numbering type t in {arabic, roman},
\* the generated URN is exactly page:<t>:<v> (the word page, the type and the
\* decimal numeral of v, joined by colons) and parsing it gives back (t, v).
UrnRoundTrip ==
    /\ urnPc \in {"generated", "parsed"} =>
          LET parts == Split(urnStr, ":")
          IN  /\ Len(parts) = 3
              /\ parts[1] = PageWord
              /\ parts[2] = urnType
              /\ IsNumeralOf(parts[3], urnVal)
    /\ urnPc = "parsed" =>
          /\ urnParsed.kind = "ok"
          /\ urnParsed.num_type = urnType
          /\ urnParsed.val = urnVal

\* a round trip of a three-digit roman page number has been made
UrnRoundTripWitness ==
    /\ urnPc = "parsed"
    /\ urnVal >= 100
    /\ urnType = Roman
    /\ urnParsed.val = urnVal

SlugWellFormed(s) ==
    /\ Len(s) > 0
    /\ \A i \in 1..Len(s) : s[i] \in SlugChars \cup {"-"}
    /\ s[1] # "-"
    /\ s[Len(s)] # "-"
    /\ \A i \in 1..(Len(s) - 1) : ~(s[i] = "-" /\ s[i + 1] = "-")
HasAsciiAlnum(s) == \E i \in 1..Len(s) : LowerChar(s[i]) \in SlugChars

\* C6: slugify is total and idempotent: a text with a letter or digit gives a
\* non-empty slug of lowercase letters, digits and single inner hyphens; a
\* text without one (the empty text included) gives the fallback literal;
\* and with the default fallback slugify(slugify(s)) = slugify(s).
SlugTotalIdempotent ==
    /\ slugPc \in {"once", "twice"} =>
          /\ HasAsciiAlnum(slugText) => SlugWellFormed(slugOut)
          /\ ~HasAsciiAlnum(slugText) => slugOut = slugFallback
    /\ (slugPc = "twice" /\ slugFallback = DefaultFallback) =>
          /\ SlugWellFormed(slugOut)
          /\ slugAgain = slugOut

\* "B: 1" went to "b-1" and stayed there
SlugWitness ==
    /\ slugPc = "twice"
    /\ slugText = <<"B", ":", " ", "1">>
    /\ slugOut = <<"b", "-", "1">>
    /\ slugAgain = slugOut

\* the empty text went to the fallback
SlugEmptyWitness ==
    /\ slugPc = "twice" /\ slugText = <<>> /\ slugOut = DefaultFallback

---------------------------------------------------------------------------
(* Properties of the schema constructors                                   *)

\* the anchor grammar: page:(arabic|roman):<positive int> or <namespace>:<token>
InAnchorGrammar(a) ==
    LET parts == Split(a, ":")
    IN  \/ /\ Len(parts) = 3
           /\ parts[1] = PageWord
           /\ parts[2] \in NumberingTypes
           /\ \E v \in 1..Pow10(MaxAnchorTokens) : IsNumeralOf(parts[3], v)
        \/ /\ Len(parts) = 2
           /\ Len(parts[1]) > 0 /\ AllIn(parts[1], NamespaceChars)
           /\ Len(parts[2]) > 0 /\ AllIn(parts[2], TokenChars)

ConstructionConditions(args) ==
    IF args.cls = "TargetNode"
    THEN /\ args.page_number >= 1
         /\ \E i \in 1..Len(args.target_id) : args.target_id[i] \notin SpaceChars
    ELSE /\ args.source_page >= 1
         /\ InAnchorGrammar(args.short_anchor)
         /\ \E i \in 1..Len(args.context_sentence) :
                args.context_sentence[i] \notin SpaceChars
         /\ args.source_bbox[1] < args.source_bbox[3]
         /\ args.source_bbox[2] < args.source_bbox[4]

\* C7: a constructor call whose arguments break a construction-time condition
\* (page < 1, blank target_id, anchor outside the anchor grammar, blank
\* context, degenerate bounding box) raises ValueError and yields no object,
\* and every object that is constructed satisfies all the conditions.
ConstructionInvariants ==
    /\ ctorPc = "raised" => ~ConstructionConditions(ctorArgs)
    /\ ctorPc = "built" => ConstructionConditions(ctorArgs)

\* C8: every anchor of a constructed SemanticReference that begins with
\* "page:" has the form page:(arabic|roman):<positive integer>: it splits into
\* three parts, the third an integer, and parse_page_urn does not raise on it.
NoMalformedPageUrn ==
    (/\ ctorPc = "built"
     /\ ctorArgs.cls = "SemanticReference"
     /\ StartsWith(ctorArgs.short_anchor, PagePrefix)) =>
        LET parts == Split(ctorArgs.short_anchor, ":")
        IN  /\ Len(parts) = 3
            /\ parts[2] \in NumberingTypes
            /\ IntParses(parts[3])
            /\ ParsePageUrn(ctorArgs.short_anchor).kind = "ok"

---------------------------------------------------------------------------
(* Properties of the Relational Linker                                     *)

\* the segments of a page map that have numbering t and hold v in their
\* printed range, both ends included
MatchingSegments(pageMap, v, t) ==
    {i \in 1..Len(pageMap) :
        /\ pageMap[i].numbering = t
        /\ pageMap[i].printed_start <= v
        /\ v <= pageMap[i].printed_end}

\* C1: _resolve_printed_to_physical(v, t) returns physical_start +
\* (v - printed_start) of the first segment in page-map order whose numbering
\* is t and whose printed range holds v, and None when there is no such
\* segment; so never a page of a segment of another type or range.
PrintedToPhysicalFirstMatch ==
    lookPc = "done" =>
        LET m == MatchingSegments(lookMap, lookVal, lookType)
        IN  IF m = {}
            THEN lookResult = <<>>
            ELSE LET first == CHOOSE i \in m : \A j \in m : i <= j
                 IN  lookResult =
                        <<lookMap[first].physical_start
                          + (lookVal - lookMap[first].printed_start)>>

\* two segments of the requested type both hold the value and would give
\* different pages; the first one decided
PrintedToPhysicalWitness ==
    /\ lookPc = "done"
    /\ Len(lookMap) = 2
    /\ MatchingSegments(lookMap, lookVal, lookType) = {1, 2}
    /\ lookMap[1].physical_start - lookMap[1].printed_start
         # lookMap[2].physical_start - lookMap[2].printed_start
    /\ lookResult = <<lookMap[1].physical_start
                      + (lookVal - lookMap[1].printed_start)>>

\* the anchor is a direct page URN page:<t>:<n> and the page map has a
\* segment of numbering t whose printed range holds n
MappedDirectPage(ref, pageMap) ==
    LET parts == Split(ref.short_anchor, ":")
    IN  /\ Len(parts) = 3
        /\ parts[1] = PageWord
        /\ IntParses(parts[3])
        /\ MatchingSegments(pageMap, StrToInt(parts[3]), parts[2]) # {}
\* the anchor equals the identifier of an AST node
HitsAstNode(ref, ast) == \E k \in 1..Len(ast) : ast[k].target_id = ref.short_anchor

\* C9: resolve() returns, in input order, precisely the references whose
\* direct-page anchor mapped to a physical page or whose anchor equals the
\* identifier of an AST node, each with a target and its score (1.0 for a
\* direct page, the node's confidence for an AST hit); every other reference
\* is absent and keeps resolved_target None and score 0.
LinkerResolvedSubset ==
    linkPc = "returned" =>
        LET expected == {i \in 1..Len(linkRefs) :
                            \/ MappedDirectPage(linkRefs[i], linkMap)
                            \/ HitsAstNode(linkRefs[i], linkAst)}
        IN  /\ {linkOut[k] : k \in 1..Len(linkOut)} = expected
            /\ \A k \in 1..(Len(linkOut) - 1) : linkOut[k] < linkOut[k + 1]
            /\ \A i \in expected :
                  /\ linkRefs[i].resolved_target # <<>>
                  /\ linkRefs[i].resolution_score =
                        IF MappedDirectPage(linkRefs[i], linkMap)
                        THEN 100
                        ELSE linkRefs[i].resolved_target[1].confidence
                  /\ ~MappedDirectPage(linkRefs[i], linkMap) =>
                        \E k \in 1..Len(linkAst) :
                            linkAst[k] = linkRefs[i].resolved_target[1]
            /\ \A i \in (1..Len(linkRefs)) \ expected :
                  /\ linkRefs[i].resolved_target = <<>>
                  /\ linkRefs[i].resolution_score = 0

---------------------------------------------------------------------------
(* Properties of the Binary Annotator                                      *)

InDocument(page) == 1 <= page /\ page <= MaxDocPages
\* resolved and not below the confidence threshold
Linkable(ref) ==
    ref.resolved_target # <<>> /\ ref.resolution_score >= MinConfidence
RECURSIVE LinkableOf(_)
LinkableOf(refs) ==
    IF refs = <<>> THEN <<>>
    ELSE IF Linkable(Head(refs)) THEN <<Head(refs)>> \o LinkableOf(Tail(refs))
    ELSE LinkableOf(Tail(refs))
AnnNoOutput == annSaveCalls = 0 /\ annOutput = <<>>

\* C2: if some given reference that is resolved and scored at or above the
\* threshold has its source page or its target page outside
\* [1, total_pages], annotate() never saves and never returns: it can only
\* end by raising, and the output file is not created, however many earlier
\* references were valid and inserted in memory.
AnnotatorAbort ==
    (\E i \in 1..Len(annRefs) :
        /\ Linkable(annRefs[i])
        /\ \/ ~InDocument(annRefs[i].source_page)
           \/ ~InDocument(annRefs[i].resolved_target[1].page_number)) =>
        /\ AnnNoOutput
        /\ annPc \notin {"saved", "returned"}
        /\ annPc # "raised" => ENABLED AnnNext

\* a valid first reference was inserted in memory, the second one has a
\* page out of bounds: annotate() raised and nothing was written
AnnotatorAbortWitness ==
    /\ annPc = "raised"
    /\ Len(annRefs) = 2
    /\ Len(annLinks) = 1
    /\ Linkable(annRefs[2])
    /\ ~InDocument(annRefs[2].source_page)
    /\ AnnNoOutput

\* C3: when annotate() returns, the output was saved exactly once and holds
\* one link for every given reference that is resolved and scored at or
\* above the threshold, and no other: the link is on page index
\* source_page - 1, has the reference's own bounding box as rectangle and
\* points at page index target page - 1.
AnnotatorLinkSet ==
    annPc \in {"saved", "returned"} =>
        LET want == LinkableOf(annRefs)
        IN  /\ annSaveCalls = 1
            /\ annOutput = <<annLinks>>
            /\ Len(annLinks) =
                  Cardinality({i \in 1..Len(annRefs) : Linkable(annRefs[i])})
            /\ Len(annLinks) = Len(want)
            /\ \A k \in 1..Len(want) :
                  /\ annLinks[k].on = want[k].source_page - 1
                  /\ annLinks[k].from = want[k].source_bbox
                  /\ annLinks[k].page = want[k].resolved_target[1].page_number - 1

\* annotate() returned with one link; the other reference was resolved but
\* scored below the threshold
AnnotatorLinkSetWitness ==
    /\ annPc = "returned"
    /\ Len(annRefs) = 2
    /\ Len(annLinks) = 1
    /\ \E i \in 1..2 :
          /\ annRefs[i].resolved_target # <<>>
          /\ annRefs[i].resolution_score < MinConfidence

\* C4 as stated: a resolved reference with a target page outside the
\* document makes annotate() fail with no output, whatever its score.
BoundsFaultFatalAnyScore ==
    (\E i \in 1..Len(annRefs) :
        /\ annRefs[i].resolved_target # <<>>
        /\ ~InDocument(annRefs[i].resolved_target[1].page_number)) =>
        /\ AnnNoOutput
        /\ annPc \notin {"saved", "returned"}

\* C4 as amended: a resolved reference scored at or above the confidence
\* threshold with a target page outside the document makes annotate() fail
\* with no output; one scored below the threshold is dropped before its
\* pages are looked at.
BoundsFaultFatal ==
    (\E i \in 1..Len(annRefs) :
        /\ annRefs[i].resolved_target # <<>>
        /\ annRefs[i].resolution_score >= MinConfidence
        /\ ~InDocument(annRefs[i].resolved_target[1].page_number)) =>
        /\ AnnNoOutput
        /\ annPc \notin {"saved", "returned"}

\* annotate() raised on a target page out of bounds, the source page being
\* inside the document
BoundsFaultFatalWitness ==
    /\ annPc = "raised"
    /\ AnnNoOutput
    /\ \E i \in 1..Len(annRefs) :
          /\ i = annI - 1
          /\ Linkable(annRefs[i])
          /\ InDocument(annRefs[i].source_page)
          /\ ~InDocument(annRefs[i].resolved_target[1].page_number)

---------------------------------------------------------------------------
(* Properties of the topology induction                                    *)

\* the longest chain of the stream of a key, as the induction computes it
ChainOfKey(key) == StreamMaxChain(SortByPX(StreamOf(topoCands, key)))
ValidEdgesOf(chain) == IF chain = <<>> THEN 0 ELSE Len(chain) - 1
\* the chain has a defined Pearson r, and r < 0.5
WeaklyCorrelated(chain) ==
    LET st == ChainStats(chain)
    IN  chain # <<>> /\ st.var_p # 0 /\ st.var_v # 0 /\ RBelowHalf(st)
InductionOver == topoPc \in {"mapped", "except", "returned", "raised"}
\* every segment of the page map starts and ends on candidates of the chain
\* and has its numbering type
SegmentsFrom(chain) ==
    \A k \in 1..Len(topoPageMap) :
       /\ \E i \in 1..Len(chain) :
             /\ chain[i].p = topoPageMap[k].physical_start
             /\ chain[i].val = topoPageMap[k].printed_start
             /\ chain[i].type = topoPageMap[k].numbering
       /\ \E i \in 1..Len(chain) :
             /\ chain[i].p = topoPageMap[k].physical_end
             /\ chain[i].val = topoPageMap[k].printed_end
\* the claim for a rejection test on chains
ChainRejectionFor(Rejected(_)) ==
    /\ \A k \in 1..Len(topoKeys) :
          Rejected(ChainOfKey(topoKeys[k])) => topoWinKey # <<topoKeys[k]>>
    /\ topoPageMap # <<>> =>
          /\ topoWinKey # <<>>
          /\ ~Rejected(ChainOfKey(topoWinKey[1]))
          /\ SegmentsFrom(ChainOfKey(topoWinKey[1]))
    /\ (/\ InductionOver
        /\ \A k \in 1..Len(topoKeys) : Rejected(ChainOfKey(topoKeys[k]))) =>
          /\ topoPageMap = <<>>
          /\ topoPc \in {"except", "raised"}

\* C10 as stated: a stream whose longest chain has fewer than 3 valid edges,
\* or a Pearson r below 0.5, is never the winning stream and no segment of
\* the page map comes from it; when every stream is such a stream the page
\* map stays empty and the induction raises.
ChainRejectionThreeEdges ==
    ChainRejectionFor(LAMBDA chain :
        ValidEdgesOf(chain) < 3 \/ WeaklyCorrelated(chain))

\* C10 as amended: a stream whose longest chain has fewer than 3 candidates
\* (fewer than 2 valid edges), or a Pearson r below 0.5, is never the winning
\* stream and no segment of the page map comes from it; when every stream is
\* such a stream the page map stays empty and the induction raises.
ChainRejection ==
    ChainRejectionFor(LAMBDA chain :
        Len(chain) < MinChainLen \/ WeaklyCorrelated(chain))

\* the induction returned a page map, and it had rejected a stream whose
\* chain of at least 3 candidates has r < 0.5
ChainRejectionWitness ==
    /\ topoPc = "returned"
    /\ topoPageMap # <<>>
    /\ \E k \in 1..Len(topoKeys) :
          /\ Len(ChainOfKey(topoKeys[k])) >= MinChainLen
          /\ WeaklyCorrelated(ChainOfKey(topoKeys[k]))
          /\ topoWinKey # <<topoKeys[k]>>

\* every stream was rejected, one of at least 3 candidates for a longest
\* chain of 2 candidates: the induction raised with an empty page map
ChainRejectionFailureWitness ==
    /\ topoPc = "raised"
    /\ topoPageMap = <<>>
    /\ topoKeys # <<>>
    /\ \E k \in 1..Len(topoKeys) :
          /\ Len(StreamOf(topoCands, topoKeys[k])) >= MinChainLen
          /\ Len(ChainOfKey(topoKeys[k])) = 2

---------------------------------------------------------------------------
(* Properties of the roman conversion                                      *)

\* the standard value of a numeral: thousands, hundreds, tens and units
DigitWordValue(w, one, five, ten) ==
    IF w = <<>> THEN 0
    ELSE IF w = <<one, ten>> THEN 9
    ELSE IF w = <<one, five>> THEN 4
    ELSE IF w[1] = five THEN 5 + Len(w) - 1
    ELSE Len(w)
NumeralGroups ==
    <<[words |-> ThousandsWords, one |-> "m", five |-> "-", ten |-> "-",
       weight |-> 1000],
      [words |-> HundredsWords, one |-> "c", five |-> "d", ten |-> "m",
       weight |-> 100],
      [words |-> TensWords, one |-> "x", five |-> "l", ten |-> "c",
       weight |-> 10],
      [words |-> UnitsWords, one |-> "i", five |-> "v", ten |-> "x",
       weight |-> 1]>>
\* the values of s, from position from on, read as one word of each group
RECURSIVE NumeralValues(_, _, _)
NumeralValues(s, from, groups) ==
    IF groups = <<>> THEN (IF from = Len(s) + 1 THEN {0} ELSE {})
    ELSE LET g == Head(groups)
             fits == {w \in g.words :
                         /\ from + Len(w) - 1 <= Len(s)
                         /\ SubSeq(s, from, from + Len(w) - 1) = w}
         IN  UNION {{g.weight * DigitWordValue(w, g.one, g.five, g.ten) + rest :
                        rest \in NumeralValues(s, from + Len(w), Tail(groups))} :
                    w \in fits}
StandardValues(s) == NumeralValues(s, 1, NumeralGroups)
RomConverted == romPc \in {"miner_converted", "profiler_converted"}

\* C11: every non-empty token that the strict roman grammar accepts is a
\* numeral, the conversion returns its standard value, and the value is at
\* least 1; a token that is no numeral (iiii, vv, ic) is rejected and not
\* converted.
RomanConversionStandard ==
    /\ RomConverted =>
          /\ romValue # <<>>
          /\ romValue[1] >= 1
          /\ StandardValues(Lower(romToken)) = {romValue[1]}
    /\ romPc \in {"miner_rejected", "profiler_rejected"} =>
          /\ romValue = <<>>
          /\ StandardValues(Lower(romToken)) = {}

---------------------------------------------------------------------------
(* Properties of the Miner                                                 *)

IsArabicToken(token) == token # <<>> /\ AllIn(token, DigitChars)
\* the token is one the claim has emitted
ClaimedAccepted(token) ==
    \/ IsArabicToken(token) /\ StrToInt(token) > 0
    \/ /\ ~IsArabicToken(token)
       /\ RomanValidatorMatches(Lower(token))
       /\ ~(Len(token) = 1 /\ Lower(token)[1] \in {"c", "d", "l", "m"})
\* the reference is one for the token, of its kind and with a positive value
ReferenceOfToken(ref, token) ==
    LET parsed == ParsePageUrn(ref.short_anchor)
    IN  /\ parsed.kind = "ok"
        /\ parsed.num_type = IF IsArabicToken(token) THEN Arabic ELSE Roman
        /\ parsed.val > 0
        /\ IsArabicToken(token) => parsed.val = StrToInt(token)
        /\ Lower(token) = <<"i">> => parsed.val = 1
        /\ Lower(token) = <<"v">> => parsed.val = 5
        /\ Lower(token) = <<"x">> => parsed.val = 10
        /\ ref.source_page = minePage + 1

\* C12: mine_page_references returns one reference for every captured token
\* that is an arabic numeral with a value above 0 or a roman token that
\* passes the strict grammar and is not one of the single characters c, d,
\* l, m, in order, and none for any other token; every reference has the
\* numbering type of its token, a strictly positive value and the source
\* page page_num_0indexed + 1.
MinerTokenAcceptance ==
    minePc = "returned" =>
        LET accepted == SelectSeq(mineTokens, ClaimedAccepted)
        IN  /\ Len(mineRefs) = Len(accepted)
            /\ \A k \in 1..Len(accepted) :
                  ReferenceOfToken(mineRefs[k], accepted[k])

---------------------------------------------------------------------------
(* Properties of the batch and of the phases of one document              *)

\* the documents named in the log entries of the given events, in log order
NamesLogged(events) ==
    LET kept == SelectSeq(pipeLog, LAMBDA e : e[2] \in events)
    IN  [k \in 1..Len(kept) |-> kept[k][1]]

QueueNames == [i \in 1..Len(pipeQueue) |-> pipeQueue[i].name]

\* process_document is at work on a document
InDocumentRun == pipePc \notin {"run_batch", "returned", "loop", "batch_complete"}

\* the log entries of doc, in order
EventsOf(name) ==
    LET kept == SelectSeq(pipeLog, LAMBDA e : e[1] = name)
    IN  [k \in 1..Len(kept) |-> kept[k][2]]

HasEvent(name, event) == \E k \in 1..Len(pipeLog) : pipeLog[k] = <<name, event>>

\* C13: the batch attempts the documents of the queue once each, in sorted
\* order and one at a time: a document's log entries end with its outcome
\* before the next document's begin; whatever a document raises, the batch
\* can go on until the queue is exhausted, and then success_count +
\* failure_count is the length of the queue.
BatchIsolation ==
    /\ pipePc # "run_batch" =>
          /\ \A i, j \in 1..Len(pipeQueue) : i < j => pipeQueue[i].name < pipeQueue[j].name
          /\ {pipeQueue[i] : i \in 1..Len(pipeQueue)} = {pipeGlob[i] : i \in 1..Len(pipeGlob)}
          /\ Len(pipeQueue) = Len(pipeGlob)
    /\ NamesLogged({"attempt"}) = SubSeq(QueueNames, 1, pipeIdx)
    /\ NamesLogged({"success", "fault"}) =
          SubSeq(QueueNames, 1, IF InDocumentRun THEN pipeIdx - 1 ELSE pipeIdx)
    /\ \A k \in 1..Len(pipeLog) :
          /\ k > 1 /\ pipeLog[k][2] = "attempt" => pipeLog[k - 1][2] \in {"success", "fault"}
          /\ k > 1 /\ pipeLog[k][2] # "attempt" => pipeLog[k - 1][1] = pipeLog[k][1]
    /\ pipeSuccess = Len(NamesLogged({"success"}))
    /\ pipeFailure = Len(NamesLogged({"fault"}))
    /\ pipePc \notin {"returned", "batch_complete"} => ENABLED PipeNext
    /\ pipePc = "returned" => pipeQueue = <<>> /\ pipeLog = <<>>
    /\ pipePc = "batch_complete" =>
          /\ pipeIdx = Len(pipeQueue)
          /\ pipeSuccess + pipeFailure = Len(pipeQueue)

\* a batch of two, globbed out of order, whose first document failed and
\* whose second succeeded
BatchIsolationWitness ==
    /\ pipePc = "batch_complete"
    /\ Len(pipeQueue) = 2
    /\ pipeGlob # pipeQueue
    /\ NamesLogged({"fault"}) = <<pipeQueue[1].name>>
    /\ NamesLogged({"success"}) = <<pipeQueue[2].name>>

\* the phase whose code is running, if it is one that holds the document
ActivePhase ==
    CASE pipePc = "profiler_run" -> <<"inducer">>
      [] pipePc = "build_ast" -> <<"ast_builder">>
      [] pipePc = "miner_loop" -> <<"miner">>
      [] pipePc = "annotate" -> <<"annotator">>
      [] OTHER -> <<>>

\* C14: a document handle is open only while the phase that opened it is
\* running: once a phase has ended, by return or by exception, no handle of
\* it is left open.
HandleRelease ==
    pipeHandles \subseteq {<<pipeQueue[pipeIdx].name, ActivePhase[k]>> : k \in 1..Len(ActivePhase)}

\* C19: without reprofile, a rulebook file that exists when the batch starts
\* is still the same file in every later state: for its document the Inducer
\* is not run and the file is neither written, replaced nor removed, also
\* while and after the AST Builder and the Linker have read it.
RulebookCacheImmutable ==
    \A i \in 1..Len(pipeGlob) :
        pipeGlob[i].cached /\ ~pipeReprofile =>
            /\ pipeRulebook[pipeGlob[i].name] = "cached"
            /\ ~HasEvent(pipeGlob[i].name, "inducer")
            /\ ~HasEvent(pipeGlob[i].name, "rulebook_written")
            /\ ~HasEvent(pipeGlob[i].name, "rulebook_removed")
            /\ HasEvent(pipeGlob[i].name, "ast_builder") =>
                  HasEvent(pipeGlob[i].name, "phase0_cached")

\* a document with a cached rulebook went through all the phases
RulebookCacheWitness ==
    /\ ~pipeReprofile
    /\ \E i \in 1..Len(pipeGlob) :
          /\ pipeGlob[i].cached
          /\ HasEvent(pipeGlob[i].name, "phase0_cached")
          /\ HasEvent(pipeGlob[i].name, "linker")
          /\ HasEvent(pipeGlob[i].name, "success")

\* C20: a document without any extractable text line fails fatally: once
\* process_document has returned for it, its outcome is a fault, no rulebook
\* was written for it, none of the AST Builder, Miner, Linker and Annotator
\* ran on it, and no output document exists for it.
ExtractionFatalFault ==
    \A i \in 1..Len(pipeQueue) :
        pipeQueue[i].kind = "no_text" /\ (i < pipeIdx \/ (i = pipeIdx /\ ~InDocumentRun)) =>
            /\ HasEvent(pipeQueue[i].name, "fault")
            /\ ~HasEvent(pipeQueue[i].name, "rulebook_written")
            /\ \A stage \in {"ast_builder", "miner", "linker", "annotator"} :
                  ~HasEvent(pipeQueue[i].name, stage)
            /\ pipeQueue[i].name \notin pipeOutput

---------------------------------------------------------------------------
(* Properties of the vocabulary registry and of the vocabulary resolution *)

\* C15: _extract_structural_vocabulary never raises, whatever the mode, the
\* stores and the oracle do; the entry it returns has a non-empty
\* primary_marker, a source, and a confidence between 0 and 1; an entry of
\* the default fallback is the label 'Chapter' with confidence 0.1.
VocabularyNeverFails ==
    /\ vocPc # "extract_raised"
    /\ vocPc = "extract_returned" =>
          /\ vocResult[1].primary_marker # <<>>
          /\ vocResult[1].source # <<>>
          /\ vocResult[1].confidence # <<>>
          /\ vocResult[1].confidence[1] \in 0..100
          /\ vocResult[1].source = <<"default_fallback">> =>
                /\ vocResult[1].primary_marker = ChapterLabel
                /\ vocResult[1].confidence = <<10>>

\* the entries of a store that get may return for the document asked for
Eligible(store) ==
    {store[i] : i \in {j \in 1..Len(store) :
        /\ store[j].doc_name = vocDoc
        /\ ~store[j].invalidated
        /\ ValidatorFn(store[j], vocSamples)}}

NewestOf(entries, e) == e \in entries /\ \A other \in entries : other.timestamp <= e.timestamp

\* what get has returned is what the arbitration asks for
Arbitrated ==
    LET e == vocResult[1]
    IN  /\ e.doc_name = vocDoc
        /\ ~e.invalidated
        /\ IF Eligible(vocManual) # {} THEN NewestOf(Eligible(vocManual), e)
           ELSE IF Eligible(vocApi) # {} THEN NewestOf(Eligible(vocApi), e)
           ELSE \/ e.source = <<"statistical_fallback">> /\ e.confidence = <<50>>
                \/ /\ e.source = <<"default_fallback">> /\ e.confidence = <<10>>
                   /\ e.primary_marker = ChapterLabel

\* C16: whatever write_manual_result, write_api_result and clear calls came
\* before, a call of get leaves both stores as they were and returns, for
\* the document asked for, the newest manual entry that is not invalidated
\* and passes the validator, else the newest such oracle entry, else a fresh
\* statistical (0.5) or default ('Chapter', 0.1) fallback entry.
RegistryArbitration ==
    [][vocPc = "ops" /\ vocPc' = "get_returned" =>
          /\ vocManual' = vocManual
          /\ vocApi' = vocApi
          /\ Arbitrated']_vars

\* get chose a manual entry although the oracle store had an eligible one
RegistryArbitrationWitness ==
    /\ vocPc = "get_returned"
    /\ vocResult[1].source = <<"manual_ingest">>
    /\ Eligible(vocApi) # {}

---------------------------------------------------------------------------
(* Properties of the oracle response validation                           *)

\* C18: a response that the validation accepts has a non-empty list of
\* layout templates, every template of it has a non-empty list of elements,
\* and exactly one template of it is the chapter opener.
OracleValidationOneOpener ==
    oraPc = "accepted" =>
        /\ oraResult[1] # <<>>
        /\ \A k \in 1..Len(oraResult[1]) : oraResult[1][k].elements # <<>>
        /\ OpenerCount(oraResult[1]) = 1

---------------------------------------------------------------------------
(* Properties of the hierarchy assembly                                   *)

\* C17: the hierarchy levels are listed by strictly descending font size
\* with the ranks 1..n, every level has min < max, and the closed font-size
\* ranges [min, max] of two different levels have no size in common.
HierarchyOrderedExclusive ==
    hierPc = "assembled" =>
        /\ \A i \in 1..Len(hierLevels) : hierLevels[i].level_rank = i
        /\ \A i, j \in 1..Len(hierLevels) :
              i < j => hierLevels[i].center > hierLevels[j].center
        /\ \A i \in 1..Len(hierLevels) : hierLevels[i].min < hierLevels[i].max
        /\ \A i, j \in 1..Len(hierLevels) :
              i # j => \/ hierLevels[i].max < hierLevels[j].min
                       \/ hierLevels[j].max < hierLevels[i].min

(* Properties of the longest-path induction (core/profiler.py)             *)

\* a path of the DAG: every consecutive pair is a valid edge
IsValidPath(chain) ==
    \A i \in 1..(Len(chain) - 1) : ValidEdge(chain[i], chain[i + 1])
\* the candidates of stream at the positions in S, in the order of stream,
\* form a path; an edge needs a larger page, so in a stream sorted by page
\* every path is of this form
IsPathSet(stream, S) ==
    \A i \in S : \A j \in S :
        (i < j /\ \A k \in S : ~(i < k /\ k < j))
            => ValidEdge(stream[i], stream[j])
\* the maximum length of any valid path over the stream's candidates
MaxPathLen(stream) ==
    LET lens == {Cardinality(S) : S \in {T \in SUBSET (1..Len(stream)) :
                                               T # {} /\ IsPathSet(stream, T)}}
    IN  CHOOSE m \in lens : \A l \in lens : l <= m
\* the streams of at least 3 candidates, sorted as line 675 sorts them
SortedStreams ==
    {SortByPX(StreamOf(topoCands, topoKeys[k])) : k \in 1..Len(topoKeys)}
InductionStreams == {stream \in SortedStreams : Len(stream) >= MinChainLen}

\* C21: for every stream of at least 3 candidates sorted by (page, x), the
\* chain reconstructed by the dynamic program is a valid path over the
\* stream's candidates and its length is the maximum length of any valid
\* path over them.
LongestPathCorrect ==
    \A stream \in InductionStreams :
        LET chain == StreamMaxChain(stream)
        IN  /\ IsValidPath(chain)
            /\ \A i \in 1..Len(chain) :
                  \E j \in 1..Len(stream) : chain[i] = stream[j]
            /\ Len(chain) = MaxPathLen(stream)
\* the induction ran over a stream whose longest path leaves candidates out
\* and does not end at the stream's last candidate, and its chain won
LongestPathWitness ==
    /\ topoPc = "mapped"
    /\ \E stream \in InductionStreams :
          /\ topoWinChain = StreamMaxChain(stream)
          /\ Len(topoWinChain) >= MinChainLen
          /\ Len(topoWinChain) < Len(stream)
          /\ topoWinChain[Len(topoWinChain)] # stream[Len(stream)]

(* Properties of the segment stitching (core/profiler.py)                  *)

\* the page map was emitted by the stitching
PageMapEmitted == topoPc \in {"mapped", "returned"}
SegmentHolds(seg, p) == seg.physical_start <= p /\ p <= seg.physical_end

\* C22: after segment stitching the emitted segments are in strictly
\* increasing physical order, pairwise disjoint in their physical and in
\* their printed ranges, of one numbering type, each with physical_start <=
\* physical_end and printed_start <= printed_end; and the page of every
\* candidate of the winning chain lies inside exactly one emitted segment
\* (short segments are not dropped).
PageMapOrderedDisjointComplete ==
    PageMapEmitted =>
        /\ \A i \in 1..Len(topoPageMap) : \A j \in 1..Len(topoPageMap) :
              i < j =>
                 /\ topoPageMap[i].physical_end < topoPageMap[j].physical_start
                 /\ \/ topoPageMap[i].printed_end < topoPageMap[j].printed_start
                    \/ topoPageMap[j].printed_end < topoPageMap[i].printed_start
                 /\ topoPageMap[i].numbering = topoPageMap[j].numbering
        /\ \A i \in 1..Len(topoPageMap) :
              /\ topoPageMap[i].physical_start <= topoPageMap[i].physical_end
              /\ topoPageMap[i].printed_start <= topoPageMap[i].printed_end
        /\ \A c \in 1..Len(topoWinChain) :
              Cardinality({i \in 1..Len(topoPageMap) :
                             SegmentHolds(topoPageMap[i], topoWinChain[c].p)}) = 1
\* a page map of several segments, one of them a single page (run below 3)
PageMapWitness ==
    /\ PageMapEmitted
    /\ Len(topoPageMap) >= 2
    /\ \E i \in 1..Len(topoPageMap) :
          topoPageMap[i].physical_start = topoPageMap[i].physical_end
    /\ \E i \in 1..Len(topoPageMap) :
          topoPageMap[i].physical_start < topoPageMap[i].physical_end

\* page_map and curr_seg when the stitching loop reaches the k-th candidate
\* of the winning chain, and after the loop body ran for it
StitchBefore(k) ==
    StitchFrom([page_map |-> <<>>, curr_seg |-> <<>>], 1,
               topoWinChain[k].p - 1, topoWinChain, topoWeights)
StitchAfter(k) ==
    StitchCandidate(StitchBefore(k), topoWinChain[k].p, topoWinChain[k],
                    topoWeights)
\* the k-th candidate meets a running segment with more physical gap pages
\* than missing printed numbers
GapPhysicalPages(k) ==
    topoWinChain[k].p - StitchBefore(k).curr_seg[1].physical_end - 1
MissingPrinted(k) ==
    topoWinChain[k].val - StitchBefore(k).curr_seg[1].last - 1
SpacerCase(k) ==
    /\ StitchBefore(k).curr_seg # <<>>
    /\ topoWinChain[k].val > StitchBefore(k).curr_seg[1].last
    /\ GapPhysicalPages(k) > MissingPrinted(k)

\* C23: when the next chain candidate has more physical gap pages than
\* missing printed numbers, the running segment is continued and not closed,
\* its physical_end and printed_end move to the new candidate, exactly
\* gap_physical_pages - missing_printed pages are appended to its spacers,
\* and those pages lie strictly between the previous and the new candidate
\* page and are the gap pages of lowest content weight.
SpacerAbsorption ==
    PageMapEmitted =>
      \A k \in 1..Len(topoWinChain) :
        SpacerCase(k) =>
          LET before == StitchBefore(k).curr_seg[1]
              after  == StitchAfter(k)
              n      == GapPhysicalPages(k) - MissingPrinted(k)
              gap    == (before.physical_end + 1)..(topoWinChain[k].p - 1)
          IN  /\ after.page_map = StitchBefore(k).page_map
              /\ after.curr_seg # <<>>
              /\ after.curr_seg[1].physical_start = before.physical_start
              /\ after.curr_seg[1].printed_start = before.printed_start
              /\ after.curr_seg[1].physical_end = topoWinChain[k].p
              /\ after.curr_seg[1].printed_end = topoWinChain[k].val
              /\ Len(after.curr_seg[1].spacers) = Len(before.spacers) + n
              /\ SubSeq(after.curr_seg[1].spacers, 1, Len(before.spacers))
                    = before.spacers
              /\ LET added == {after.curr_seg[1].spacers[i] :
                                 i \in (Len(before.spacers) + 1)
                                       ..Len(after.curr_seg[1].spacers)}
                 IN  /\ Cardinality(added) = n
                     /\ added \subseteq gap
                     /\ \A s \in added : \A a \in gap \ added :
                           ContentWeight(topoWeights, s)
                              <= ContentWeight(topoWeights, a)
\* a candidate was absorbed over a gap that holds both pages assigned to
\* missing printed numbers and spacer pages, of different weights
SpacerAbsorptionWitness ==
    /\ PageMapEmitted
    /\ topoWeights = "rising"
    /\ \E k \in 1..Len(topoWinChain) :
          /\ SpacerCase(k)
          /\ MissingPrinted(k) >= 1
          /\ \E i \in 1..Len(topoPageMap) :
                /\ SegmentHolds(topoPageMap[i], topoWinChain[k].p)
                /\ topoPageMap[i].spacers # <<>>

\* a reference to the printed page v of numbering type t, resolved by the
\* Linker against the emitted page map (no AST is needed for a page URN)
PageReference(v, t) ==
    SemanticReference(1, GeneratePageUrn(v, t), <<0, 0, 1, 1>>)
ResolvedPageReference(v, t) ==
    LET outcome == ResolveOne(PageReference(v, t), <<>>, topoPageMap)
    IN  [PageReference(v, t) EXCEPT !.resolved_target = outcome.target,
                                    !.resolution_score = outcome.score]

\* C27: every segment emitted by the stitching satisfies (physical_end -
\* physical_start) - (printed_end - printed_start) = number of its spacers
\* >= 0, the inferred stride being 1 or unset; so every printed value of a
\* segment resolves to a page inside the segment and inside the scanned
\* pages, and a direct-page link resolved against the rulebook induced from
\* the same document never raises the Annotator's target bounds fault.
SegmentSpanInvariant ==
    PageMapEmitted =>
        /\ \A k \in 1..Len(topoWinChain) :
              StitchAfter(k).curr_seg[1].stride \in {<<>>, <<1>>}
        /\ \A i \in 1..Len(topoPageMap) :
              LET seg == topoPageMap[i]
              IN  /\ (seg.physical_end - seg.physical_start)
                       - (seg.printed_end - seg.printed_start) = Len(seg.spacers)
                  /\ \A v \in seg.printed_start..seg.printed_end :
                        LET page == ResolvePrintedToPhysical(topoPageMap, v,
                                                             seg.numbering)
                            ref  == ResolvedPageReference(v, seg.numbering)
                        IN  /\ page # <<>>
                            /\ seg.physical_start <= page[1]
                            /\ page[1] <= seg.physical_end
                            /\ page[1] <= MaxTopoPage
                            /\ ref.resolved_target # <<>>
                            /\ ref.resolved_target[1].page_number = page[1]
                            /\ AnnotateOne(ref, MaxTopoPage, MinConfidence)
                                  = "insert"
\* a segment with spacers and several printed values was emitted, and the
\* Linker resolved its last printed value to a page before its physical end
SegmentSpanWitness ==
    /\ PageMapEmitted
    /\ \E i \in 1..Len(topoPageMap) :
          LET seg == topoPageMap[i]
          IN  /\ seg.spacers # <<>>
              /\ seg.printed_start < seg.printed_end
              /\ ResolvedPageReference(seg.printed_end, seg.numbering)
                    .resolved_target[1].page_number < seg.physical_end

\* C28: for every candidate (page p, printed value val) of the winning chain
\* that was absorbed into the page map, resolving val with the chain's
\* numbering type against the emitted page map returns p, also for
\* segments that contain spacer pages.
InductionResolutionRoundTrip ==
    PageMapEmitted =>
        \A k \in 1..Len(topoWinChain) :
            ResolvePrintedToPhysical(topoPageMap, topoWinChain[k].val,
                                     topoWinChain[k].type)
               = Some(topoWinChain[k].p)

\* the round trip for the candidates of the segments without spacer pages
RoundTripWithoutSpacers ==
    PageMapEmitted =>
        \A k \in 1..Len(topoWinChain) : \A i \in 1..Len(topoPageMap) :
            (SegmentHolds(topoPageMap[i], topoWinChain[k].p)
               /\ topoPageMap[i].spacers = <<>>)
            => ResolvePrintedToPhysical(topoPageMap, topoWinChain[k].val,
                                        topoWinChain[k].type)
                  = Some(topoWinChain[k].p)

\* _match_signature: the closed font-size band of a level holds the size
InBand(level, size) == level.min <= size /\ size <= level.max

\* C29: for every emitted hierarchy level, the font-size band [min, max] of
\* its visual signature contains the center size of the cluster it was
\* built from and contains the center of no other heading cluster.
HierarchyBandOwnsCluster ==
    hierPc = "assembled" =>
        \A i \in 1..Len(hierLevels) :
            /\ InBand(hierLevels[i], hierLevels[i].center)
            /\ \A j \in 1..Len(hierLevels) :
                  j # i => ~InBand(hierLevels[i], hierLevels[j].center)

(* Properties of the oracle retry loop (core/profiler.py)                  *)

CallOutcomes == {rtyCalls[i].outcome : i \in 1..Len(rtyCalls)}

\* C24: within one vocabulary resolution the oracle is called at most
\* api_retry_attempts + 1 times; a call after the first is made only after
\* the previous response failed validation and uses the amended prompt; the
\* first response that validates is written to the oracle store exactly
\* once and returned with confidence 0.95; after the attempts are exhausted
\* or a call raised, nothing is written to the oracle store and the
\* resolution ends by returning the fallback entry.
BoundedOracleRetry ==
    /\ Len(rtyCalls) <= rtyMaxRetries + 1
    /\ \A i \in 1..Len(rtyCalls) :
          IF i = 1 THEN rtyCalls[i].prompt = "base"
          ELSE /\ rtyCalls[i - 1].outcome = "rejected"
               /\ rtyCalls[i].prompt = "amended"
    /\ "accepted" \in CallOutcomes =>
          /\ rtyPc = "returned"
          /\ Len(rtyStore) = 1
          /\ rtyResult = <<rtyStore[1]>>
          /\ rtyResult[1].confidence = ApiConfidence
    /\ "accepted" \notin CallOutcomes =>
          /\ rtyStore = <<>>
          /\ rtyPc = "returned" => rtyResult = <<rtyHit>>
          /\ rtyPc # "returned" => ENABLED RtyNext
          /\ rtyPc # "returned" => rtyResult = <<>>
\* a response was accepted at the last permitted attempt, after rejections
OracleRetryAcceptedWitness ==
    /\ rtyPc = "returned"
    /\ rtyMaxRetries = MaxApiRetries
    /\ Len(rtyCalls) = rtyMaxRetries + 1
    /\ rtyCalls[Len(rtyCalls)].outcome = "accepted"
    /\ Len(rtyStore) = 1

(* Properties of the AST builder (core/indexer.py)                         *)

\* the namespace of a structural URN, and the number of the nodes of that
\* namespace among the first i nodes returned
NamespaceOf(target_id) == Split(target_id, ":")[1]
RankInNamespace(nodes, i) ==
    Cardinality({j \in 1..i :
        NamespaceOf(nodes[j].target_id) = NamespaceOf(nodes[i].target_id)})

\* C25: the target_ids of the nodes returned by build_ast are pairwise
\* distinct, also when the slugified label of a hierarchy level equals an
\* asset type, and the k-th node of a namespace has the identifier
\* <namespace>:<k zero-padded to 2 digits>, without gaps.
AstIdentifiersUnique ==
    astPc = "returned" =>
        /\ \A i \in 1..Len(astReturned) : \A j \in 1..Len(astReturned) :
              i # j => astReturned[i].target_id # astReturned[j].target_id
        /\ \A i \in 1..Len(astReturned) :
              astReturned[i].target_id =
                  GenerateStructuralUrn(NamespaceOf(astReturned[i].target_id),
                                        RankInNamespace(astReturned, i))

\* the same for the rulebooks in which no hierarchy label slugifies to an
\* asset type
IdentifiersUniqueApart ==
    (\A l \in 1..Len(astRulebook.hierarchy) : \A a \in 1..Len(astRulebook.assets) :
        Slugify(astRulebook.hierarchy[l].preferred_label, <<"t","h","e","m","e">>)
           # Lower(astRulebook.assets[a].asset_type))
    => AstIdentifiersUnique

\* the nodes created from the line with index i
NodesOfLine(i) == {n \in 1..Len(astState.origin) : astState.origin[n] = i}
\* the line with index j reaches the lookahead buffer: its page is mapped
\* and its text has 3 characters or more
ReachesBuffer(j) ==
    /\ IsInValidSegment(astRulebook.page_map, astDoc[j].page)
    /\ Len(Strip(astDoc[j].line.text, SpaceChars)) >= 3

\* C26: every line that opens a pending heading ends up as exactly one
\* hierarchy node of the AST, appended when the next non-mergeable line is
\* met or, for the last one, at the end of the document; a pending heading
\* is never overwritten by a later heading, never lost at a page boundary
\* or an unmapped page, never appended twice, and it is appended before any
\* node created from a later line.
PendingEmittedOnce ==
    astPc \in {"lines", "returned"} =>
        /\ \A k \in 1..Len(astState.opened) :
              LET i == astState.opened[k]
              IN  IF astPc = "lines" /\ astState.pending_line = i
                  THEN /\ NodesOfLine(i) = {}
                       /\ \A j \in (i + 1)..(astI - 1) :
                             ReachesBuffer(j) => astDoc[j].line.size > MergeMinSize
                  ELSE /\ Cardinality(NodesOfLine(i)) = 1
                       /\ \A n \in NodesOfLine(i) :
                             /\ astState.nodes[n].target_type = "hierarchy"
                             /\ astState.nodes[n].page_number = astDoc[i].page
        /\ \A a \in 1..Len(astState.origin) : \A b \in 1..Len(astState.origin) :
              a < b => astState.origin[a] < astState.origin[b]
        /\ astPc = "lines" /\ astState.pending_line # 0 =>
              /\ astState.pending_node # <<>>
              /\ \A n \in 1..Len(astState.origin) :
                    astState.origin[n] < astState.pending_line
        /\ astPc = "returned" => astReturned = astState.nodes
\* two headings were returned: one was pending across a page boundary and
\* flushed by a later line, the other was appended at the end
PendingEmittedWitness ==
    /\ astPc = "returned"
    /\ Len(astState.opened) = 2
    /\ Len(astReturned) = 2
    /\ astDoc[astState.opened[1]].page < astDoc[astState.opened[2]].page
    /\ astState.opened[2] = Len(astDoc)

---------------------------------------------------------------------------
(* The pipeline of process_document: the references of the Miner, handed
   to the Resolver and then to the Annotator *)

\* the ASTs and page maps the Resolver may hold next to the mined references
PipelineAsts == SeqsUpTo(AstNodeInputs, MaxAstNodes)

GateThresholds == {0, MinConfidence, 100}

\* the reference as EnterpriseResolver.resolve leaves it
ResolvedAs(ref, o) ==
    [ref EXCEPT !.resolved_target = o.target, !.resolution_score = o.score]

DirectPageLink(ref, ast, pageMap) ==
    LET o == ResolveOne(ref, ast, pageMap)
    IN  /\ o.kind \in {"resolved", "dropped"}
        /\ o.kind = "resolved" =>
              /\ o.target[1].target_type = "direct_page"
              /\ o.target[1].target_id = ref.short_anchor
              /\ o.target[1].confidence = 100
              /\ o.score = 100
              /\ \A k \in 1..Len(ast) : o.target[1] # ast[k]
              /\ \A min_conf \in GateThresholds :
                    AnnotateOne(ResolvedAs(ref, o), MaxDocPages, min_conf)
                        # "drop"

\* C30: every reference the Miner returns carries an anchor of the form
\* page:(arabic|roman):<n>; whatever the AST and the page map, the Resolver
\* takes it by the direct-page branch (dropped, or resolved to a direct_page
\* target with confidence and score 1.0, never an AST node), and the
\* Annotator's gate drops it at no threshold up to 1.0
PipelineDirectPageLinks ==
    \A k \in 1..Len(mineRefs) :
        /\ MatchesPageAlternative(mineRefs[k].short_anchor)
        /\ \A ast \in PipelineAsts, pageMap \in LinkPageMaps :
              DirectPageLink(mineRefs[k], ast, pageMap)

PipelineDirectPageWitness ==
    /\ minePc = "returned"
    /\ \E k \in 1..Len(mineRefs), pageMap \in LinkPageMaps :
          /\ StartsWith(mineRefs[k].short_anchor, PagePrefix \o Roman)
          /\ ResolveOne(mineRefs[k], <<>>, pageMap).kind = "resolved"
    /\ \E k \in 1..Len(mineRefs), pageMap \in LinkPageMaps :
          /\ pageMap # <<>>
          /\ ResolveOne(mineRefs[k], <<>>, pageMap).kind = "dropped"

=============================================================================
